---- MODULE Spec2Model ----
(***************************************************************************)
(* BookScout (src/app.py): the metadata reconciliation engine.             *)
(*                                                                         *)
(* Text values are sequences of tokens (a word, a number, one punctuation  *)
(* mark or one blank), so that lower(), strip(), the series patterns and   *)
(* the key formatting act on them the way the code acts on characters.     *)
(* Python's None is the value None below; the empty string is <<>>.        *)
(***************************************************************************)
EXTENDS Integers, Sequences, FiniteSets, TLC

VARIABLES
    books_lists,    \* merge_books: the argument, one list of records per source
    merged,         \* merge_books(books_lists), once computed
    remerged,       \* merge_books(<<merged>>), once computed
    mphase,         \* "input" | "merged" | "remerged" | "off"
    books,          \* table books: id -> row
    next_id,        \* the id AUTOINCREMENT gives the next row of books
    scan_history,   \* table scan_history, in insertion order
    last_request,   \* the request handled last, with scan_author's locals
    requests,       \* the number of requests handled so far
    call,           \* a function call studied on its own: its name and arguments
    returned,       \* what the call returned, once made
    authors,        \* table authors: id -> row (rows are never deleted)
    scans           \* the scan_author requests in flight, when they interleave

mvars == <<books_lists, merged, remerged, mphase>>
dbvars == <<books, next_id, scan_history, last_request, requests>>
fvars == <<call, returned>>
avars == <<authors, scans>>

\* the authors the requests on books are about
Authors == {1, 2}

\* the rows of table authors the requests on books refer to
WatchedAuthors ==
    [id \in Authors |-> [name |-> <<"Author", " ", IF id = 1 THEN "A" ELSE "B">>,
                         active |-> 1]]

----------------------------------------------------------------------------
(* Python values *)

None == <<"<None>">>
Empty == <<>>

\* bool(v) for v a str or None
Truthy(v) == v # None /\ v # Empty

Min(S) == CHOOSE x \in S : \A y \in S : x <= y

\* str.lower(), token by token
LowerTok(t) ==
    CASE t = "Foo" -> "foo"
      [] t = "FOO" -> "foo"
      [] t = "Bar" -> "bar"
      [] t = "Saga" -> "saga"
      [] t = "Book" -> "book"
      [] t = "BOOK" -> "book"
      [] t = "Vol" -> "vol"
      [] t = "The" -> "the"
      [] OTHER -> t

Lower(s) == [i \in 1..Len(s) |-> LowerTok(s[i])]

IsSpace(t) == t = " "

RECURSIVE LStrip(_)
LStrip(s) == IF s # <<>> /\ IsSpace(Head(s)) THEN LStrip(Tail(s)) ELSE s

RECURSIVE RStrip(_)
RStrip(s) ==
    IF s # <<>> /\ IsSpace(s[Len(s)]) THEN RStrip(SubSeq(s, 1, Len(s) - 1)) ELSE s

\* str.strip()
Strip(s) == RStrip(LStrip(s))

\* len(s): the number of characters
RECURSIVE CharLen(_)
CharLen(s) == IF s = <<>> THEN 0 ELSE Len(Head(s)) + CharLen(Tail(s))

----------------------------------------------------------------------------
(* extract_series_from_title *)

MinCleanTitleLen == 3

NumTokens == {"1", "2.5"}

\* \d+(?:\.\d+)?
IsNum(t) == t \in NumTokens
\* Book, Vol under re.IGNORECASE
IsBook(t) == LowerTok(t) = "book"
IsVol(t) == LowerTok(t) = "vol"
\* [-:]
IsDashColon(t) == t \in {"-", ":"}

At(s, p) == IF p \in 1..Len(s) THEN s[p] ELSE "<eos>"

\* \s* and the tail of \s+ (greedy): the first position at or after p that
\* holds no blank
RECURSIVE SkipSp(_, _)
SkipSp(s, p) == IF IsSpace(At(s, p)) THEN SkipSp(s, p + 1) ELSE p

NoTail == [e |-> 0, n |-> "<eos>"]

\* What follows the lazy group of each pattern, matched from position p:
\* e is the last position of the match (0: no match), n the number matched.
\* \s*#(N)\)
Tail1(s, p) ==
    LET q == SkipSp(s, p)
    IN  IF At(s, q) = "#" /\ IsNum(At(s, q + 1)) /\ At(s, q + 2) = ")"
        THEN [e |-> q + 2, n |-> s[q + 1]] ELSE NoTail

\* ,?\s*Book\s+(N)\)
Tail2(s, p) ==
    LET c == IF At(s, p) = "," THEN p + 1 ELSE p
        q == SkipSp(s, c)
        r == SkipSp(s, q + 1)
    IN  IF IsBook(At(s, q)) /\ IsSpace(At(s, q + 1)) /\ IsNum(At(s, r))
           /\ At(s, r + 1) = ")"
        THEN [e |-> r + 1, n |-> s[r]] ELSE NoTail

\* ,?\s*Vol\.?\s+(N)\)
Tail3(s, p) ==
    LET c == IF At(s, p) = "," THEN p + 1 ELSE p
        q == SkipSp(s, c)
        d == IF At(s, q + 1) = "." THEN q + 2 ELSE q + 1
        r == SkipSp(s, d)
    IN  IF IsVol(At(s, q)) /\ IsSpace(At(s, d)) /\ IsNum(At(s, r))
           /\ At(s, r + 1) = ")"
        THEN [e |-> r + 1, n |-> s[r]] ELSE NoTail

\* \s*-\s*Book\s+(N)\)
Tail4(s, p) ==
    LET q == SkipSp(s, p)
        r == SkipSp(s, q + 1)
        u == SkipSp(s, r + 1)
    IN  IF At(s, q) = "-" /\ IsBook(At(s, r)) /\ IsSpace(At(s, r + 1))
           /\ IsNum(At(s, u)) /\ At(s, u + 1) = ")"
        THEN [e |-> u + 1, n |-> s[u]] ELSE NoTail

\* :\s*Book\s+(N)\s*[-:]
Tail5(s, p) ==
    LET q == SkipSp(s, p + 1)
        r == SkipSp(s, q + 1)
        u == SkipSp(s, r + 1)
    IN  IF At(s, p) = ":" /\ IsBook(At(s, q)) /\ IsSpace(At(s, q + 1))
           /\ IsNum(At(s, r)) /\ IsDashColon(At(s, u))
        THEN [e |-> u, n |-> s[r]] ELSE NoTail

\* \s*#(N)\s*[-:]
Tail6(s, p) ==
    LET q == SkipSp(s, p)
        u == SkipSp(s, q + 2)
    IN  IF At(s, q) = "#" /\ IsNum(At(s, q + 1)) /\ IsDashColon(At(s, u))
        THEN [e |-> u, n |-> s[q + 1]] ELSE NoTail

\* \s+Book\s+(N)$
Tail7(s, p) ==
    LET q == SkipSp(s, p)
        r == SkipSp(s, q + 1)
    IN  IF IsSpace(At(s, p)) /\ IsBook(At(s, q)) /\ IsSpace(At(s, q + 1))
           /\ IsNum(At(s, r)) /\ r = Len(s)
        THEN [e |-> r, n |-> s[r]] ELSE NoTail

\* \s+#(N)$
Tail8(s, p) ==
    LET q == SkipSp(s, p)
    IN  IF IsSpace(At(s, p)) /\ At(s, q) = "#" /\ IsNum(At(s, q + 1))
           /\ q + 1 = Len(s)
        THEN [e |-> q + 1, n |-> s[q + 1]] ELSE NoTail

PatternTail(k, s, p) ==
    CASE k = 1 -> Tail1(s, p)
      [] k = 2 -> Tail2(s, p)
      [] k = 3 -> Tail3(s, p)
      [] k = 4 -> Tail4(s, p)
      [] k = 5 -> Tail5(s, p)
      [] k = 6 -> Tail6(s, p)
      [] k = 7 -> Tail7(s, p)
      [] OTHER -> Tail8(s, p)

\* the patterns list, in order: 1..4 open with \( and their group is
\* [^)]+?, 5..8 have the group .+? (5 and 6 anchored by ^)
Patterns == 1..8
IsParen(k) == k \in 1..4

NoSpan == [b |-> 0, g1 |-> 0, g2 |-> 0, e |-> 0, n |-> "<eos>"]

\* the first token of the lazy group of pattern k in a match that begins at b
GroupStart(k, b) == IF IsParen(k) THEN b + 1 ELSE b

\* where the group that starts at g1 may end: [^)]+ holds no ")"
GroupEnds(k, s, g1) ==
    {j \in g1..Len(s) : IsParen(k) => \A i \in g1..j : s[i] # ")"}

\* lazy: of the group ends after which the tail matched, the first
Laziest(b, g1, tails) ==
    LET ok == {c \in tails : c.t.e # 0}
    IN  IF ok = {} THEN NoSpan
        ELSE LET c == CHOOSE c \in ok : \A d \in ok : c.j <= d.j
             IN  [b |-> b, g1 |-> g1, g2 |-> c.j, e |-> c.t.e, n |-> c.t.n]

\* The match of pattern k that begins at position b: the lazy group takes
\* the fewest tokens g1..g2 after which the tail matches.
MatchAt(k, s, b) ==
    IF IsParen(k) /\ At(s, b) # "(" THEN NoSpan
    ELSE Laziest(b, GroupStart(k, b),
                 {[j |-> j, t |-> PatternTail(k, s, j + 1)] :
                     j \in GroupEnds(k, s, GroupStart(k, b))})

\* of the matches found at the start positions, the leftmost
Leftmost(matches) ==
    LET hits == {m \in matches : m.e # 0}
    IN  IF hits = {} THEN NoSpan
        ELSE CHOOSE m \in hits : \A h \in hits : m.b <= h.b

\* where a match may begin: patterns 5 and 6 are anchored by ^
Starts(k, s, from) ==
    IF k \in {5, 6} THEN {1} \cap (from..Len(s)) ELSE from..Len(s)

\* re.search(pattern, s) from position `from`: the leftmost match
Search(k, s, from) == Leftmost({MatchAt(k, s, b) : b \in Starts(k, s, from)})

\* re.sub(pattern, '', s): every non-overlapping match removed
RECURSIVE SubAll(_, _, _)
SubAfter(k, s, from, m) ==
    IF m.e = 0 THEN SubSeq(s, from, Len(s))
    ELSE SubSeq(s, from, m.b - 1) \o SubAll(k, s, m.e + 1)
SubAll(k, s, from) == SubAfter(k, s, from, Search(k, s, from))

\* re.sub(r'^[-:\s]+|[-:\s]+$', '', s)
IsTrim(t) == IsDashColon(t) \/ IsSpace(t)
RECURSIVE LTrim(_)
LTrim(s) == IF s # <<>> /\ IsTrim(Head(s)) THEN LTrim(Tail(s)) ELSE s
RECURSIVE RTrim(_)
RTrim(s) ==
    IF s # <<>> /\ IsTrim(s[Len(s)]) THEN RTrim(SubSeq(s, 1, Len(s) - 1)) ELSE s
TrimPunct(s) == RTrim(LTrim(s))

\* the first pattern of the list that matches, 0 if none does
MinOrZero(ks) == IF ks = {} THEN 0 ELSE Min(ks)
FirstPattern(title) == MinOrZero({k \in Patterns : Search(k, title, 1).e # 0})

\* lines 306-317: m is the match, clean the title after lines 309-311
Extracted(title, m, clean) ==
    [title |-> IF CharLen(clean) < MinCleanTitleLen THEN title ELSE clean,
     series |-> Strip(SubSeq(title, m.g1, m.g2)),
     position |-> <<m.n>>]

\* lines 303-319 with the pattern k that matched
ExtractWith(title, k) ==
    IF k = 0 THEN [title |-> title, series |-> None, position |-> None]
    ELSE Extracted(title, Search(k, title, 1),
                   Strip(TrimPunct(Strip(SubAll(k, title, 1)))))

extract_series_from_title(title) == ExtractWith(title, FirstPattern(title))

----------------------------------------------------------------------------
(* merge_books *)

\* book['source']: a str (one provider tag) or a list of tags
SourceStr(name) == [isList |-> FALSE, names |-> <<name>>]

\* The record shape the three adapters emit; a key an adapter leaves out
\* reads as None through book.get(). (The adapters also set 'language',
\* which nothing reads after the adapter has filtered on it.)
NoBook ==
    [title |-> Empty, subtitle |-> None, isbn |-> None, isbn13 |-> None,
     asin |-> None, release_date |-> None, format |-> None,
     cover_url |-> None, description |-> None, series |-> None,
     series_position |-> None, source |-> SourceStr(<<"?">>)]

OpenLibraryBook(title, subtitle, isbn, isbn13, release_date, cover_url) ==
    [NoBook EXCEPT !.title = title, !.subtitle = subtitle, !.isbn = isbn,
                   !.isbn13 = isbn13, !.release_date = release_date,
                   !.cover_url = cover_url,
                   !.source = SourceStr(<<"OpenLibrary">>)]

GoogleBook(title, subtitle, isbn, isbn13, release_date, cover_url, description) ==
    [NoBook EXCEPT !.title = title, !.subtitle = subtitle, !.isbn = isbn,
                   !.isbn13 = isbn13, !.release_date = release_date,
                   !.cover_url = cover_url, !.description = description,
                   !.source = SourceStr(<<"GoogleBooks">>)]

AudnexusBook(title, subtitle, asin, release_date, cover_url) ==
    [NoBook EXCEPT !.title = title, !.subtitle = subtitle, !.asin = asin,
                   !.release_date = release_date, !.cover_url = cover_url,
                   !.format = <<"audiobook">>,
                   !.source = SourceStr(<<"Audnexus">>)]

\* lines 327-334: the title is replaced by the extractor's, series and
\* position are set from it or cleared
SetSeries(book, x) ==
    [book EXCEPT !.title = x.title,
                 !.series = IF Truthy(x.series) THEN x.series ELSE None,
                 !.series_position = IF Truthy(x.series) THEN x.position ELSE None]

WithSeries(book) == SetSeries(book, extract_series_from_title(book.title))

\* DedupKey with isbn consulted before isbn13
DedupKey_IsbnFirst(book) ==
    IF Truthy(book.isbn) THEN <<"isbn:">> \o book.isbn
    ELSE IF Truthy(book.isbn13) THEN <<"isbn13:">> \o book.isbn13
    ELSE IF Truthy(book.asin) THEN <<"asin:">> \o book.asin
    ELSE <<"title:">> \o Strip(Lower(book.title))

\* lines 336-346, on the record as WithSeries left it
DedupKey(book) ==
    IF Truthy(book.isbn13) THEN <<"isbn13:">> \o book.isbn13
    ELSE IF Truthy(book.isbn) THEN <<"isbn:">> \o book.isbn
    ELSE IF Truthy(book.asin) THEN <<"asin:">> \o book.asin
    ELSE <<"title:">> \o Strip(Lower(book.title))

FillFields == {"subtitle", "isbn", "isbn13", "asin", "cover_url", "description"}

\* FillField that lets the later record win
FillField_Overwrite(existing, book, f) ==
    IF Truthy(book[f]) THEN book[f] ELSE existing[f]

\* FillField that never fills
FillField_Never(existing, book, f) == existing[f]

\* lines 353-355
FillField(existing, book, f) ==
    IF ~Truthy(existing[f]) /\ Truthy(book[f]) THEN book[f] ELSE existing[f]

\* lines 357-360
TrackSource(existing, book) ==
    LET asList == [isList |-> TRUE, names |-> existing.source.names]
    IN  IF ~book.source.isList
        THEN [asList EXCEPT !.names = @ \o book.source.names]
        ELSE asList

\* lines 352-360
MergeInto(existing, book) ==
    [f \in DOMAIN existing |->
        IF f \in FillFields THEN FillField(existing, book, f)
        ELSE IF f = "source" THEN TrackSource(existing, book)
        ELSE existing[f]]

\* lines 348-360: `acc` is the dict `merged` in insertion order, each entry
\* a key and the record stored under it
StoreAt(acc, book, key) ==
    LET at == {i \in 1..Len(acc) : acc[i].key = key}
    IN  IF at = {} THEN Append(acc, [key |-> key, book |-> book])
        ELSE LET i == CHOOSE i \in at : TRUE
             IN  [acc EXCEPT ![i].book = MergeInto(@, book)]

Store(acc, book) == StoreAt(acc, book, DedupKey(book))

\* One step of the two loops
MergeStep(acc, raw) == Store(acc, WithSeries(raw))

RECURSIVE MergeLoop(_, _)
MergeLoop(acc, recs) ==
    IF recs = <<>> THEN acc ELSE MergeLoop(MergeStep(acc, Head(recs)), Tail(recs))

RECURSIVE Flatten(_)
Flatten(lists) == IF lists = <<>> THEN <<>> ELSE Head(lists) \o Flatten(Tail(lists))

\* list(merged.values())
Values(acc) == [i \in 1..Len(acc) |-> acc[i].book]

merge_books(lists) == Values(MergeLoop(<<>>, Flatten(lists)))

----------------------------------------------------------------------------
(* Inputs of merge_books *)

MaxRecs == 3

tFoo == <<"Foo">>
tFooSaga == <<"Foo", " ", "(", "Saga", " ", "#", "1", ")">>
tfooSp == <<"foo", " ">>
tBar == <<"Bar">>
tBarBook == <<"Bar", " ", "Book", " ", "2.5">>
X1 == <<"9780000000001">>
X2 == <<"9780000000002">>
I1 == <<"0000000001">>
A1 == <<"B000000001">>

\* Records as the adapters build them: two that share an isbn13 and differ
\* elsewhere, three that share only a normalised title, one keyed by asin,
\* one keyed by isbn, and one more whose asin is the empty string.
MergePool ==
    { OpenLibraryBook(tFooSaga, Empty, I1, X1, <<"2001">>, <<"c0">>),
      GoogleBook(tFoo, <<"Sub">>, None, X1, <<"2001-05">>, <<"c1">>, <<"Desc">>),
      AudnexusBook(tfooSp, Empty, Empty, Empty, <<"c2">>),
      OpenLibraryBook(tFoo, <<"Sub2">>, None, None, Empty, None),
      AudnexusBook(tBarBook, Empty, A1, <<"2001">>, None),
      GoogleBook(tFooSaga, <<"Sub">>, I1, None, Empty, None, Empty),
      AudnexusBook(tBar, Empty, Empty, Empty, None) }

SeqsUpTo(S, n) == UNION {[1..m -> S] : m \in 0..n}

\* Every way to hand at most MaxRecs records to merge_books in the three
\* lists scan_author passes
MergeInputs ==
    { <<SubSeq(f, 1, c[1]), SubSeq(f, c[1] + 1, c[2]), SubSeq(f, c[2] + 1, Len(f))>> :
        <<f, c>> \in { fc \in SeqsUpTo(MergePool, MaxRecs) \X ((0..MaxRecs) \X (0..MaxRecs)) :
                          fc[2][1] <= fc[2][2] /\ fc[2][2] <= Len(fc[1]) } }

InitMerge ==
    /\ books_lists \in MergeInputs
    /\ merged = <<>>
    /\ remerged = <<>>
    /\ mphase = "input"
    /\ books = <<>>
    /\ next_id = 1
    /\ scan_history = <<>>
    /\ last_request = [op |-> "none"]
    /\ requests = 0
    /\ authors = WatchedAuthors
    /\ scans = <<>>
    /\ call = [fn |-> "none"]
    /\ returned = <<>>

\* all_books = merge_books([...])
MergeBooks ==
    /\ mphase = "input"
    /\ merged' = merge_books(books_lists)
    /\ mphase' = "merged"
    /\ UNCHANGED <<books_lists, remerged, dbvars, fvars, avars>>

\* the output fed back in: merge_books([all_books])
MergeAgain ==
    /\ mphase = "merged"
    /\ remerged' = merge_books(<<merged>>)
    /\ mphase' = "remerged"
    /\ UNCHANGED <<books_lists, merged, dbvars, fvars, avars>>

NextMerge == MergeBooks \/ MergeAgain

vars == <<mvars, dbvars, fvars, avars>>

SpecMerge == InitMerge /\ [][NextMerge]_vars

----------------------------------------------------------------------------
(* Properties of merge_books, under SpecMerge *)

\* the input records in encounter order
Encounter == Flatten(books_lists)

RECURSIVE Ascending(_)
Ascending(S) == IF S = {} THEN <<>> ELSE <<Min(S)>> \o Ascending(S \ {Min(S)})

\* for a sequence of keys: the positions where a key appears first, the
\* i-th of them, and the positions that hold the key of position j
Firsts(ks) == {j \in DOMAIN ks : \A i \in 1..(j - 1) : ks[i] # ks[j]}
NthFirst(ks, i) ==
    CHOOSE j \in Firsts(ks) : Cardinality({x \in Firsts(ks) : x <= j}) = i
Members(ks, j) == {x \in DOMAIN ks : ks[x] = ks[j]}

KeySeq == [j \in 1..Len(Encounter) |-> DedupKey(WithSeries(Encounter[j]))]

\* C6: for the records that share a dedup key, each of subtitle, isbn,
\* isbn13, asin, cover_url, description of the merged work is the first
\* non-empty value in encounter order (empty if no record has one), and
\* merging only empty lists gives the empty list.
C6_FirstNonEmptyWins ==
    mphase = "merged" =>
        LET ks == KeySeq
            enc == Encounter
        IN  /\ Len(merged) = Cardinality(Firsts(ks))
            /\ \A i \in 1..Len(merged) :
                  LET g == Members(ks, NthFirst(ks, i))
                  IN  \A f \in FillFields :
                        LET have == {j \in g : Truthy(enc[j][f])}
                        IN  IF have = {} THEN ~Truthy(merged[i][f])
                            ELSE merged[i][f] = enc[Min(have)][f]
            /\ (enc = <<>> => merged = <<>>)

\* a merged work one of whose fields was empty in its first record and
\* filled by a later one, and another field on which two of its records
\* hold different non-empty values
C6_Witness ==
    /\ mphase = "merged"
    /\ \E i \in 1..Len(merged) :
          LET j == NthFirst(KeySeq, i)
              g == Members(KeySeq, j)
          IN  /\ \E f \in FillFields : \E x \in g :
                    ~Truthy(Encounter[j][f]) /\ Truthy(Encounter[x][f])
                    /\ merged[i][f] = Encounter[x][f]
              /\ \E f \in FillFields : \E x \in g :
                    /\ Truthy(Encounter[j][f]) /\ Truthy(Encounter[x][f])
                    /\ Encounter[x][f] # Encounter[j][f]
                    /\ merged[i][f] = Encounter[j][f]

\* C7: merge_books is idempotent: its output fed back in comes out with
\* the same works and every field unchanged.
C7_MergeIdempotent == mphase = "remerged" => remerged = merged

\* the works of a merge result with the order of the names in source
\* forgotten
NameBag(names) == [n \in {names[i] : i \in DOMAIN names} |->
                      Cardinality({i \in DOMAIN names : names[i] = n})]
Unordered(out) ==
    {[out[i] EXCEPT !.source = [isList |-> @.isList, names |-> NameBag(@.names)]] :
        i \in DOMAIN out}

ListKeys(l) == {DedupKey(WithSeries(l[j])) : j \in DOMAIN l}
Swapped == <<books_lists[2], books_lists[1], books_lists[3]>>

\* C8 as stated: when the first two lists hold records of the same dedup
\* keys, passing them in the other order gives the same works with the same
\* field values, up to the order of the names in source.
C8_OrderIrrelevant ==
    (mphase = "merged" /\ ListKeys(books_lists[1]) = ListKeys(books_lists[2]))
        => Unordered(merge_books(Swapped)) = Unordered(merged)

WorkOfKey(out, k) == CHOOSE w \in {out[i] : i \in DOMAIN out} : DedupKey(w) = k
OutKeys(out) == {DedupKey(out[i]) : i \in DOMAIN out}

\* C8 amended: whichever of the first two lists is passed first, the output
\* holds one work per dedup key of the input, with the same provider names
\* in source; each fill field of a work is non-empty in one order exactly
\* when it is in the other, and has the same value when the records of that
\* key do not disagree on it.
C8_OrderUpToFirstWins ==
    mphase = "merged" =>
        LET other == merge_books(Swapped)
        IN  /\ Len(other) = Len(merged)
            /\ OutKeys(other) = OutKeys(merged)
            /\ Cardinality(OutKeys(merged)) = Len(merged)
            /\ \A k \in OutKeys(merged) :
                  LET a == WorkOfKey(merged, k)
                      b == WorkOfKey(other, k)
                      g == {j \in DOMAIN KeySeq : KeySeq[j] = k}
                  IN  /\ a.source.isList = b.source.isList
                      /\ NameBag(a.source.names) = NameBag(b.source.names)
                      /\ \A f \in FillFields :
                            LET vals == {Encounter[j][f] : j \in {x \in g : Truthy(Encounter[x][f])}}
                            IN  /\ Truthy(a[f]) <=> Truthy(b[f])
                                /\ Cardinality(vals) = 1 => (a[f] = b[f] /\ a[f] \in vals)

\* both lists hold a record of one key, the records differ in a non-empty
\* fill field and in the title, and each holds a value the other lacks
C8_Witness ==
    /\ mphase = "merged"
    /\ \E x \in DOMAIN books_lists[1] : \E y \in DOMAIN books_lists[2] :
          LET r == books_lists[1][x]
              q == books_lists[2][y]
          IN  /\ DedupKey(WithSeries(r)) = DedupKey(WithSeries(q))
              /\ r.title # q.title
              /\ \E f \in FillFields : Truthy(r[f]) /\ Truthy(q[f]) /\ r[f] # q[f]
              /\ \E f \in FillFields : ~Truthy(r[f]) /\ Truthy(q[f])
              /\ \E f \in FillFields : Truthy(r[f]) /\ ~Truthy(q[f])

\* the provider names of a sequence of names, each once, in order of first
\* appearance
Once(names) == [x \in 1..Cardinality(Firsts(names)) |-> names[NthFirst(names, x)]]

\* C9: source is a plain string when one provider contributed to the work,
\* and otherwise the list of the contributing providers, each named once,
\* in order of first appearance.
C9_SourceNamesOnce ==
    mphase = "merged" =>
        \A i \in 1..Len(merged) :
            LET g == Ascending(Members(KeySeq, NthFirst(KeySeq, i)))
                from == [x \in 1..Len(g) |-> Encounter[g[x]].source.names[1]]
            IN  IF Len(Once(from)) = 1
                THEN merged[i].source = SourceStr(from[1])
                ELSE merged[i].source = [isList |-> TRUE, names |-> Once(from)]

\* The dedup key as the claim words it, on a record as the adapter made it
ClaimKey(r) ==
    IF Truthy(r.isbn13) THEN <<"isbn13", r.isbn13>>
    ELSE IF Truthy(r.isbn) THEN <<"isbn", r.isbn>>
    ELSE IF Truthy(r.asin) THEN <<"asin", r.asin>>
    ELSE <<"title", Strip(Lower(extract_series_from_title(r.title).title))>>

ClaimKeySeq == [j \in 1..Len(Encounter) |-> ClaimKey(Encounter[j])]

\* C10: records are keyed by isbn13, else isbn, else asin, else the
\* lowercased trimmed title after series extraction; the output holds one
\* work per distinct key, in order of first appearance, and the work of a
\* key is made of exactly the records of that key: it has the title and
\* release date of the first of them and its source names them in order.
C10_OneWorkPerKey ==
    mphase = "merged" =>
        /\ Len(merged) = Cardinality(Firsts(ClaimKeySeq))
        /\ \A i \in 1..Len(merged) :
              LET j == NthFirst(ClaimKeySeq, i)
                  g == Ascending(Members(ClaimKeySeq, j))
              IN  /\ merged[i].title = extract_series_from_title(Encounter[j].title).title
                  /\ merged[i].release_date = Encounter[j].release_date
                  /\ merged[i].source.names =
                        [x \in 1..Len(g) |-> Encounter[g[x]].source.names[1]]

\* two records with different titles that fall under one title key, and a
\* record with isbn13 and isbn whose title the extractor changes
C10_Witness ==
    /\ mphase = "merged"
    /\ \E x, y \in DOMAIN Encounter :
          /\ x # y /\ ClaimKeySeq[x] = ClaimKeySeq[y]
          /\ ClaimKeySeq[x][1] = "title" /\ Encounter[x].title # Encounter[y].title
    /\ \E x \in DOMAIN Encounter :
          /\ Truthy(Encounter[x].isbn) /\ Truthy(Encounter[x].isbn13)
          /\ ClaimKeySeq[x][1] = "isbn13"
          /\ extract_series_from_title(Encounter[x].title).title # Encounter[x].title

----------------------------------------------------------------------------
(* check_audiobookshelf and search_audible_metadata_direct *)

OwnershipPct == 75

\* a in b, for strings
IsSubstr(a, b) ==
    \E i \in 0..(Len(b) - Len(a)) : SubSeq(b, i + 1, i + Len(a)) = a

\* .replace(':', '').replace(',', '').replace('-', ' ')
RECURSIVE Normalized(_)
Normalized(s) ==
    IF s = <<>> THEN <<>>
    ELSE IF Head(s) \in {":", ","} THEN Normalized(Tail(s))
    ELSE <<IF Head(s) = "-" THEN " " ELSE Head(s)>> \o Normalized(Tail(s))

\* set(s.split()): the words of s, a word being the tokens between blanks
RECURSIVE WordsFrom(_, _)
WordsFrom(s, word) ==
    LET done == IF word = <<>> THEN {} ELSE {word}
    IN  IF s = <<>> THEN done
        ELSE IF IsSpace(Head(s)) THEN done \cup WordsFrom(Tail(s), <<>>)
        ELSE WordsFrom(Tail(s), Append(word, Head(s)))
Words(s) == WordsFrom(s, <<>>)

NotOwned == [has_it |-> FALSE, series |-> None, position |-> None]

\* lines 490-499 and 510-519: the series of the matched item
MatchedItem(item) ==
    IF item.series # <<>>
    THEN [has_it |-> TRUE, series |-> item.series[1].name,
          position |-> item.series[1].sequence]
    ELSE [has_it |-> TRUE, series |-> None, position |-> None]

\* the substring test of line 488 alone
ItemMatches_SubstringOnly(book_title, item) ==
    \/ IsSubstr(Lower(book_title), Strip(Lower(item.title)))
    \/ IsSubstr(Strip(Lower(item.title)), Lower(book_title))

\* lines 485-508, for one search result
ItemMatches(book_title, item) ==
    LET abs_title == Strip(Lower(item.title))
        title_words == Words(Normalized(Strip(Lower(book_title))))
        abs_words == Words(Normalized(abs_title))
    IN  \/ IsSubstr(Lower(book_title), abs_title)
        \/ IsSubstr(abs_title, Lower(book_title))
        \/ /\ Cardinality(title_words) > 0
           /\ 100 * Cardinality(title_words \cap abs_words)
                 >= OwnershipPct * Cardinality(title_words)

\* `abs` is what the catalog answers: up (configured, reachable, status
\* 200) and the search results of its libraries in the order met. A result
\* whose title is null raises in line 485, and the handler of line 522
\* answers not owned.
check_audiobookshelf(book_title, abs) ==
    IF ~abs.up THEN NotOwned
    ELSE LET stops == {i \in DOMAIN abs.results :
                          \/ abs.results[i].title = None
                          \/ ItemMatches(book_title, abs.results[i])}
         IN  IF stops = {} \/ abs.results[Min(stops)].title = None THEN NotOwned
             ELSE MatchedItem(abs.results[Min(stops)])

----------------------------------------------------------------------------
(* scan_author *)

\* lines 1490-1503 for one merged record; `audible` is what
\* search_audible_metadata_direct returns when it is called
WithOwnership(book, abs, audible) ==
    LET c == check_audiobookshelf(book.title, abs)
        series == IF Truthy(c.series) THEN c.series
                  ELSE IF ~c.has_it /\ ~Truthy(book.series) /\ Truthy(audible.series)
                       THEN audible.series
                  ELSE book.series
        position == IF Truthy(c.series) THEN c.position
                    ELSE IF ~c.has_it /\ ~Truthy(book.series) /\ Truthy(audible.series)
                         THEN audible.position
                    ELSE book.series_position
    IN  [f \in DOMAIN book \cup {"have_it"} |->
            IF f = "have_it" THEN (IF c.has_it THEN 1 ELSE 0)
            ELSE IF f = "series" THEN series
            ELSE IF f = "series_position" THEN position
            ELSE book[f]]

\* json.dumps(list of names)
RECURSIVE JsonItems(_)
JsonItems(names) ==
    IF names = <<>> THEN <<>>
    ELSE <<"\"">> \o Head(names) \o <<"\"">>
         \o (IF Len(names) > 1 THEN <<", ">> ELSE <<>>) \o JsonItems(Tail(names))
JsonDumps(names) == <<"[">> \o JsonItems(names) \o <<"]">>

\* line 1554
SourceText(source) ==
    IF source.isList THEN JsonDumps(source.names) ELSE source.names[1]

\* SelectOne that passes over the rows marked deleted
SelectOne_LiveOnly(db, author_id, column, value) ==
    LET rows == {id \in DOMAIN db :
                    db[id].author_id = author_id /\ db[id][column] # None
                    /\ db[id][column] = value /\ db[id].deleted = 0}
    IN  IF rows = {} THEN 0 ELSE Min(rows)

\* a query that leaves out author_id = ?
SelectOne_AnyAuthor(db, author_id, column, value) ==
    LET rows == {id \in DOMAIN db :
                    db[id][column] # None /\ db[id][column] = value}
    IN  IF rows = {} THEN 0 ELSE Min(rows)

\* SELECT id, deleted FROM books WHERE author_id = ? AND <column> = ?
\* .fetchone(): books has no index, the first row in id order is returned;
\* 0 stands for no row
SelectOne(db, author_id, column, value) ==
    LET rows == {id \in DOMAIN db :
                    db[id].author_id = author_id /\ db[id][column] # None
                    /\ db[id][column] = value}
    IN  IF rows = {} THEN 0 ELSE Min(rows)

\* FindExisting that asks by title only for a record without identifier
FindExisting_TitleWithoutIdentifier(db, author_id, book) ==
    LET by13 == IF Truthy(book.isbn13)
                THEN SelectOne(db, author_id, "isbn13", book.isbn13) ELSE 0
        byIsbn == IF by13 = 0 /\ Truthy(book.isbn)
                  THEN SelectOne(db, author_id, "isbn", book.isbn) ELSE by13
        byAsin == IF byIsbn = 0 /\ Truthy(book.asin)
                  THEN SelectOne(db, author_id, "asin", book.asin) ELSE byIsbn
    IN  IF ~Truthy(book.isbn13) /\ ~Truthy(book.isbn) /\ ~Truthy(book.asin)
        THEN SelectOne(db, author_id, "title", book.title)
        ELSE byAsin

\* lines 1511-1539
FindExisting(db, author_id, book) ==
    LET by13 == IF Truthy(book.isbn13)
                THEN SelectOne(db, author_id, "isbn13", book.isbn13) ELSE 0
        byIsbn == IF by13 = 0 /\ Truthy(book.isbn)
                  THEN SelectOne(db, author_id, "isbn", book.isbn) ELSE by13
        byAsin == IF byIsbn = 0 /\ Truthy(book.asin)
                  THEN SelectOne(db, author_id, "asin", book.asin) ELSE byIsbn
    IN  IF byAsin = 0 THEN SelectOne(db, author_id, "title", book.title)
        ELSE byAsin

\* the column of the query that returned `existing`
FoundBy(db, author_id, book, existing) ==
    IF existing = 0 THEN "none"
    ELSE IF Truthy(book.isbn13)
            /\ SelectOne(db, author_id, "isbn13", book.isbn13) = existing
    THEN "isbn13"
    ELSE IF Truthy(book.isbn) /\ SelectOne(db, author_id, "isbn", book.isbn) = existing
    THEN "isbn"
    ELSE IF Truthy(book.asin) /\ SelectOne(db, author_id, "asin", book.asin) = existing
    THEN "asin"
    ELSE "title"

\* lines 1546-1557; deleted takes the column default
InsertedRow(author_id, book) ==
    [author_id |-> author_id, title |-> book.title, subtitle |-> book.subtitle,
     isbn |-> book.isbn, isbn13 |-> book.isbn13, asin |-> book.asin,
     release_date |-> book.release_date, format |-> book.format,
     source |-> SourceText(book.source), cover_url |-> book.cover_url,
     description |-> book.description, series |-> book.series,
     series_position |-> book.series_position, have_it |-> book.have_it,
     deleted |-> 0]

\* COALESCE(?, column)
Coalesce_Incoming(stored, incoming) == IF incoming # None THEN incoming ELSE stored

\* COALESCE(column, ?)
Coalesce(stored, incoming) == IF stored # None THEN stored ELSE incoming

CoalesceFields ==
    {"series", "series_position", "cover_url", "subtitle", "description",
     "asin", "isbn", "isbn13"}

\* an update that keeps an ownership flag once it is set
UpdatedRow_KeepsOwned(row, book) ==
    [f \in DOMAIN row |->
        IF f = "have_it" THEN (IF row.have_it # 0 THEN row.have_it ELSE book.have_it)
        ELSE IF f \in CoalesceFields THEN Coalesce(row[f], book[f])
        ELSE row[f]]

\* lines 1563-1586
UpdatedRow(row, book) ==
    [f \in DOMAIN row |->
        IF f = "have_it" THEN book.have_it
        ELSE IF f \in CoalesceFields THEN Coalesce(row[f], book[f])
        ELSE row[f]]

\* lines 1508-1587 for one record: st holds the table, the next id, the
\* counter new_books and, per record, the row it was matched with, the
\* query that matched it and the branch taken
PersistOne(st, author_id, book) ==
    LET existing == FindExisting(st.db, author_id, book)
        by == Append(st.by, FoundBy(st.db, author_id, book, existing))
    IN  IF existing # 0 /\ st.db[existing].deleted = 1
        THEN [st EXCEPT !.existing = Append(@, existing), !.by = by,
                        !.did = Append(@, "skip")]
        ELSE IF existing = 0
        THEN [db |-> [id \in DOMAIN st.db \cup {st.next} |->
                         IF id = st.next THEN InsertedRow(author_id, book)
                         ELSE st.db[id]],
              next |-> st.next + 1,
              new_books |-> st.new_books + 1,
              existing |-> Append(st.existing, 0),
              by |-> by,
              did |-> Append(st.did, "insert")]
        ELSE [st EXCEPT !.db[existing] = UpdatedRow(@, book),
                        !.existing = Append(@, existing), !.by = by,
                        !.did = Append(@, "update")]

RECURSIVE PersistAll(_, _, _)
PersistAll(st, author_id, all_books) ==
    IF all_books = <<>> THEN st
    ELSE PersistAll(PersistOne(st, author_id, Head(all_books)), author_id,
                    Tail(all_books))

\* a scan that counts every merged work as new
ScanResult_AllNew(db, next, author_id, all_books) ==
    [PersistAll([db |-> db, next |-> next, new_books |-> 0,
                 existing |-> <<>>, by |-> <<>>, did |-> <<>>], author_id, all_books)
        EXCEPT !.new_books = Len(all_books)]

\* lines 1505-1587
ScanResult(db, next, author_id, all_books) ==
    PersistAll([db |-> db, next |-> next, new_books |-> 0,
                existing |-> <<>>, by |-> <<>>, did |-> <<>>], author_id, all_books)

----------------------------------------------------------------------------
(* The requests *)

MaxBooks == 2
MaxRequests == 3

BookIds == 1..MaxBooks

\* what the three sources answer to one scan: at most MaxFound records,
\* each source its own
MaxFound == 2

ScanPool == MergePool \ {OpenLibraryBook(tFoo, <<"Sub2">>, None, None, Empty, None),
                         AudnexusBook(tBarBook, Empty, A1, <<"2001">>, None)}
OpenLibraryPool == {r \in ScanPool : r.source = SourceStr(<<"OpenLibrary">>)}
GooglePool == {r \in ScanPool : r.source = SourceStr(<<"GoogleBooks">>)}
AudnexusPool == {r \in ScanPool : r.source = SourceStr(<<"Audnexus">>)}

ScanInputs ==
    {l \in SeqsUpTo(OpenLibraryPool, MaxFound) \X SeqsUpTo(GooglePool, MaxFound)
              \X SeqsUpTo(AudnexusPool, MaxFound) :
        Len(l[1]) + Len(l[2]) + Len(l[3]) <= MaxFound}

\* what the ownership catalog answers
AbsCatalogs ==
    { [up |-> FALSE, results |-> <<>>],
      [up |-> TRUE,
       results |-> <<[title |-> <<"Foo">>,
                      series |-> <<[name |-> <<"Shelf", " ", "Saga">>,
                                    sequence |-> <<"2.5">>]>>]>>] }

\* what search_audible_metadata_direct returns
AudibleAnswers ==
    { [series |-> None, position |-> None],
      [series |-> <<"Audible", " ", "Saga">>, position |-> <<"1">>] }

\* lines 1482-1503: all_books as the loop of line 1508 finds it
Checked(found, abs, audible) ==
    [i \in DOMAIN found |-> WithOwnership(found[i], abs, audible)]

AllBooksOf(lists, abs, audible) == Checked(merge_books(lists), abs, audible)

\* every all_books the answers above lead to
ScanOutcomes ==
    {AllBooksOf(l, abs, au) : l \in ScanInputs, abs \in AbsCatalogs, au \in AudibleAnswers}

\* lines 1465-1604, from all_books on; the scan is left out when it would
\* store more than max_books rows
ScanWithin(author_id, all_books, max_books) ==
    /\ requests < MaxRequests
    /\ author_id \in Authors
    /\ \E r \in {ScanResult(books, next_id, author_id, all_books)} :
        /\ r.next <= max_books + 1
        /\ books' = r.db
        /\ next_id' = r.next
        /\ scan_history' = Append(scan_history,
                                  [author_id |-> author_id,
                                   books_found |-> Len(all_books),
                                   new_books |-> r.new_books])
        /\ last_request' = [op |-> "scan_author", author_id |-> author_id,
                            all_books |-> all_books, existing |-> r.existing,
                            by |-> r.by, did |-> r.did]
        /\ requests' = requests + 1
        /\ UNCHANGED <<mvars, fvars, avars>>

scan_author(author_id, all_books) == ScanWithin(author_id, all_books, MaxBooks)

\* request.form.get(name, '').strip() or None
FormValue(raw) == IF Strip(raw) = Empty THEN None ELSE Strip(raw)

EditFields ==
    {"title", "subtitle", "series", "series_position", "isbn", "isbn13", "asin",
     "release_date", "format", "cover_url", "description"}

NoForm ==
    [title |-> Empty, subtitle |-> Empty, series |-> Empty,
     series_position |-> Empty, isbn |-> Empty, isbn13 |-> Empty, asin |-> Empty,
     release_date |-> Empty, format |-> Empty, cover_url |-> Empty,
     description |-> Empty, have_it |-> Empty]

\* forms a user submits: one with a title and an isbn13 only, one complete
Forms ==
    { [NoForm EXCEPT !.title = <<"Foo">>, !.isbn13 = X1],
      [NoForm EXCEPT !.title = <<"Bar", " ">>, !.subtitle = <<"Mine">>,
                     !.series = <<"My", " ", "Saga">>, !.series_position = <<"1">>,
                     !.isbn = I1, !.isbn13 = X2, !.asin = A1,
                     !.release_date = <<"1999">>, !.format = <<"ebook">>,
                     !.cover_url = <<"c9">>, !.description = <<"Mine">>,
                     !.have_it = <<"on">>] }

\* lines 1203-1251
add_book_manually(author_id, form) ==
    /\ requests < MaxRequests
    /\ author_id \in Authors
    /\ Strip(form.title) # Empty
    /\ next_id <= MaxBooks
    /\ books' = [id \in DOMAIN books \cup {next_id} |->
                    IF id # next_id THEN books[id]
                    ELSE [author_id |-> author_id, title |-> Strip(form.title),
                          subtitle |-> FormValue(form.subtitle),
                          isbn |-> FormValue(form.isbn),
                          isbn13 |-> FormValue(form.isbn13),
                          asin |-> FormValue(form.asin),
                          release_date |-> FormValue(form.release_date),
                          format |-> FormValue(form.format),
                          source |-> <<"Manual Entry">>,
                          cover_url |-> FormValue(form.cover_url),
                          description |-> FormValue(form.description),
                          series |-> FormValue(form.series),
                          series_position |-> FormValue(form.series_position),
                          have_it |-> IF Truthy(form.have_it) THEN 1 ELSE 0,
                          deleted |-> 0]]
    /\ next_id' = next_id + 1
    /\ last_request' = [op |-> "add_book_manually"]
    /\ requests' = requests + 1
    /\ UNCHANGED <<scan_history, mvars, fvars, avars>>

\* lines 1255-1299
edit_book(book_id, form) ==
    /\ requests < MaxRequests
    /\ book_id \in DOMAIN books
    /\ Strip(form.title) # Empty
    /\ books' = [books EXCEPT ![book_id] =
                    [f \in DOMAIN @ |->
                        IF f = "title" THEN Strip(form.title)
                        ELSE IF f \in EditFields THEN FormValue(form[f])
                        ELSE @[f]]]
    /\ last_request' = [op |-> "edit_book"]
    /\ requests' = requests + 1
    /\ UNCHANGED <<next_id, scan_history, mvars, fvars, avars>>

\* metadata a user picks from search_book_metadata's results
MetadataChoices ==
    { [NoForm EXCEPT !.isbn13 = X1, !.cover_url = <<"c1">>],
      [NoForm EXCEPT !.title = <<"Foo">>, !.asin = A1, !.subtitle = <<"Sub">>] }

\* lines 1389-1461
apply_book_metadata(book_id, data) ==
    /\ requests < MaxRequests
    /\ book_id \in DOMAIN books
    /\ books' = [books EXCEPT ![book_id] =
                    [f \in DOMAIN @ |->
                        IF f \in EditFields /\ Truthy(data[f]) THEN data[f] ELSE @[f]]]
    /\ last_request' = [op |-> "apply_book_metadata"]
    /\ requests' = requests + 1
    /\ UNCHANGED <<next_id, scan_history, mvars, fvars, avars>>

MergeFields ==
    {"subtitle", "isbn", "isbn13", "asin", "cover_url", "description", "series",
     "series_position"}

\* the fold without the skip of line 1738: the primary's own id is removed
\* like any other listed id
FoldDuplicate_NoSkip(db, primary, primary_id, dup_id) ==
    IF dup_id \notin DOMAIN db THEN db
    ELSE [id \in DOMAIN db \ {dup_id} |-> db[id]]

\* lines 1737-1764 for one duplicate id; `primary` is the row read in line
\* 1731, before the loop
FoldDuplicate(db, primary, primary_id, dup_id) ==
    IF dup_id = primary_id \/ dup_id \notin DOMAIN db THEN db
    ELSE LET duplicate == db[dup_id]
             updated == [f \in DOMAIN db[primary_id] |->
                            IF f \in MergeFields /\ ~Truthy(primary[f])
                               /\ Truthy(duplicate[f])
                            THEN duplicate[f]
                            ELSE IF f = "have_it" /\ duplicate.have_it = 1
                                    /\ primary.have_it # 1
                            THEN 1
                            ELSE db[primary_id][f]]
         IN  [id \in DOMAIN db \ {dup_id} |->
                 IF id = primary_id THEN updated ELSE db[id]]

RECURSIVE FoldDuplicates(_, _, _, _)
FoldDuplicates(db, primary, primary_id, duplicate_ids) ==
    IF duplicate_ids = <<>> THEN db
    ELSE FoldDuplicates(FoldDuplicate(db, primary, primary_id, Head(duplicate_ids)),
                        primary, primary_id, Tail(duplicate_ids))

\* lines 1719-1773
merge_duplicate_books(primary_id, duplicate_ids) ==
    /\ requests < MaxRequests
    /\ duplicate_ids # <<>>
    /\ primary_id \in DOMAIN books
    /\ books' = FoldDuplicates(books, books[primary_id], primary_id, duplicate_ids)
    /\ last_request' = [op |-> "merge_duplicate_books", primary_id |-> primary_id,
                        duplicate_ids |-> duplicate_ids, primary |-> books[primary_id]]
    /\ requests' = requests + 1
    /\ UNCHANGED <<next_id, scan_history, mvars, fvars, avars>>

\* lines 1777-1799
delete_books(book_ids) ==
    /\ requests < MaxRequests
    /\ book_ids # {}
    /\ books' = [id \in DOMAIN books |->
                    IF id \in book_ids THEN [books[id] EXCEPT !.deleted = 1]
                    ELSE books[id]]
    /\ last_request' = [op |-> "delete_books"]
    /\ requests' = requests + 1
    /\ UNCHANGED <<next_id, scan_history, mvars, fvars, avars>>

\* lines 1803-1818
toggle_book_owned(book_id) ==
    /\ requests < MaxRequests
    /\ book_id \in DOMAIN books
    /\ books' = [books EXCEPT ![book_id].have_it = IF @ # 0 THEN 0 ELSE 1]
    /\ last_request' = [op |-> "toggle_book_owned"]
    /\ requests' = requests + 1
    /\ UNCHANGED <<next_id, scan_history, mvars, fvars, avars>>

Init ==
    /\ books = <<>>
    /\ next_id = 1
    /\ scan_history = <<>>
    /\ last_request = [op |-> "none"]
    /\ requests = 0
    /\ authors = WatchedAuthors
    /\ scans = <<>>
    /\ call = [fn |-> "none"]
    /\ returned = <<>>
    /\ books_lists = <<>>
    /\ merged = <<>>
    /\ remerged = <<>>
    /\ mphase = "off"

Next ==
    \/ \E a \in Authors, all_books \in ScanOutcomes : scan_author(a, all_books)
    \/ \E a \in Authors, form \in Forms : add_book_manually(a, form)
    \/ \E id \in BookIds, form \in Forms : edit_book(id, form)
    \/ \E id \in BookIds, data \in MetadataChoices : apply_book_metadata(id, data)
    \/ \E p \in BookIds, d \in SeqsUpTo(BookIds, 2) : merge_duplicate_books(p, d)
    \/ \E ids \in SUBSET BookIds : delete_books(ids)
    \/ \E id \in BookIds : toggle_book_owned(id)

Spec == Init /\ [][Next]_vars

----------------------------------------------------------------------------
(* scan_author and the table books: the claims *)

IdentifierFields == {"isbn13", "isbn", "asin"}

\* a step of scan_author; last_request' holds its locals
ScanStep == requests' = requests + 1 /\ last_request'.op = "scan_author"

RowsOf(db, author_id) == {id \in DOMAIN db : db[id].author_id = author_id}

\* the record and the row have the same title or the same non-empty identifier
SameWork(book, row) ==
    \/ book.title = row.title
    \/ \E f \in IdentifierFields : Truthy(book[f]) /\ book[f] = row[f]

\* the record and the row have the same title or the same non-null identifier
SameNonNull(book, row) ==
    \/ book.title = row.title
    \/ \E f \in IdentifierFields : book[f] # None /\ book[f] = row[f]

C2_OneLiveWorkPerIdentifier ==
    \A x, y \in DOMAIN books :
        (/\ x # y
         /\ books[x].author_id = books[y].author_id
         /\ books[x].deleted = 0 /\ books[y].deleted = 0)
        => \A f \in IdentifierFields :
              Truthy(books[x][f]) => books[x][f] # books[y][f]

\* C3, as stated: a record that scan_author matched with a row by title has
\* no isbn13, no isbn and no asin.
C3_TitleOnlyWithoutIdentifier ==
    last_request.op = "scan_author" =>
        \A i \in DOMAIN last_request.all_books :
            last_request.by[i] = "title" =>
                \A f \in IdentifierFields : ~Truthy(last_request.all_books[i][f])

\* C3, amended: scan_author inserts a record only when no row of the author
\* has its title or one of its non-empty identifiers, and it matches a record
\* by title exactly when the record's identifiers are found in no row, whether
\* or not the record has identifiers.
C3_InsertOnlyWhenNothingMatches ==
    [][ScanStep =>
          \A i \in DOMAIN last_request'.all_books :
              LET book == last_request'.all_books[i]
                  mine == RowsOf(books, last_request'.author_id)
              IN  /\ last_request'.did[i] = "insert" =>
                        \A r \in mine : ~SameWork(book, books[r])
                  /\ last_request'.by[i] = "title" =>
                        /\ last_request'.existing[i] \in DOMAIN books'
                        /\ books'[last_request'.existing[i]].title = book.title
                        /\ \A r \in mine : \A f \in IdentifierFields :
                              Truthy(book[f]) => book[f] # books[r][f]]_vars

\* a scan has matched a record that has an identifier by title, and has
\* inserted another record where the author had rows already
C3_Witness ==
    /\ last_request.op = "scan_author"
    /\ \E i, j \in DOMAIN last_request.all_books :
          /\ last_request.by[i] = "title"
          /\ last_request.did[i] = "update"
          /\ \E f \in IdentifierFields : Truthy(last_request.all_books[i][f])
          /\ last_request.did[j] = "insert"
          /\ last_request.existing[i] < next_id - 1

PreservedFields == {"title", "release_date", "format", "source", "deleted"}

\* C4: a scan leaves every row in the table, changes no non-empty value of
\* series, series_position, cover_url, subtitle, description, asin, isbn or
\* isbn13 of a row, and changes no title, release_date, format, source or
\* deleted flag.
C4_RescanPreserves ==
    [][ScanStep =>
          \A id \in DOMAIN books :
              /\ id \in DOMAIN books'
              /\ \A f \in CoalesceFields :
                    Truthy(books[id][f]) => books'[id][f] = books[id][f]
              /\ \A f \in PreservedFields : books'[id][f] = books[id][f]]_vars

\* a scan has updated a row that edit_book had written, with a record that
\* has another non-empty value for a field the row has a value for
C4_Witness ==
    /\ last_request.op = "scan_author"
    /\ \E i \in DOMAIN last_request.all_books :
          LET row == books[last_request.existing[i]]
              book == last_request.all_books[i]
          IN  /\ last_request.did[i] = "update"
              /\ row.format = <<"ebook">>
              /\ row.source # <<"Manual Entry">>
              /\ \E f \in CoalesceFields :
                    Truthy(row[f]) /\ Truthy(book[f]) /\ book[f] # row[f]

\* C5: when a scan updates a row with a record (and with no other record of
\* the same scan), every field among series, series_position, cover_url,
\* subtitle, description, asin, isbn, isbn13 that was null or empty in the row
\* and is non-empty in the record has the record's value afterwards.
C5_RescanFillsEmpty ==
    [][ScanStep =>
          \A i \in DOMAIN last_request'.all_books :
              LET id == last_request'.existing[i]
                  book == last_request'.all_books[i]
              IN  (/\ last_request'.did[i] = "update"
                   /\ id \in DOMAIN books
                   /\ \A j \in DOMAIN last_request'.all_books :
                         j # i => last_request'.existing[j] # id)
                  => \A f \in CoalesceFields :
                        (~Truthy(books[id][f]) /\ Truthy(book[f]))
                        => books'[id][f] = book[f]]_vars

----------------------------------------------------------------------------
(* extract_series_from_title called on its own, and again on its result *)

MaxParts == 3

\* the pieces the titles are made of: a word, a blank, and one piece for
\* each of the eight formats named in the comments of lines 291-300
TitleParts ==
    { <<"Foo">>, <<" ">>,
      <<"(", "Saga", " ", "#", "1", ")">>,
      <<"(", "Saga", ",", " ", "Book", " ", "1", ")">>,
      <<"(", "Saga", ",", " ", "Vol", " ", "2.5", ")">>,
      <<"(", "Saga", " ", "-", " ", "Book", " ", "1", ")">>,
      <<"Saga", ":", " ", "Book", " ", "1", " ", "-">>,
      <<"Saga", " ", "#", "1", " ", "-">>,
      <<"Book", " ", "1">>,
      <<"#", "1">> }

Titles == {Flatten(parts) : parts \in SeqsUpTo(TitleParts, MaxParts)}

InitExtract ==
    /\ call \in {[fn |-> "extract_series_from_title", title |-> t] : t \in Titles}
    /\ returned = <<>>
    /\ books_lists = <<>>
    /\ merged = <<>>
    /\ remerged = <<>>
    /\ mphase = "off"
    /\ books = <<>>
    /\ next_id = 1
    /\ scan_history = <<>>
    /\ last_request = [op |-> "none"]
    /\ requests = 0
    /\ authors = WatchedAuthors
    /\ scans = <<>>

\* clean_title, series, position = extract_series_from_title(title)
Extract ==
    /\ returned = <<>>
    /\ returned' = <<extract_series_from_title(call.title)>>
    /\ UNCHANGED <<call, mvars, dbvars, avars>>

\* the same call on the clean title that came back
ExtractAgain ==
    /\ Len(returned) = 1
    /\ returned' = Append(returned, extract_series_from_title(returned[1].title))
    /\ UNCHANGED <<call, mvars, dbvars, avars>>

NextExtract == Extract \/ ExtractAgain

SpecExtract == InitExtract /\ [][NextExtract]_vars

\* the patterns of the list that match a title
Matching(title) == {k \in Patterns : Search(k, title, 1).e # 0}

\* C11: for every title that matches one of the eight patterns, the call on
\* the returned clean title finds no series: it returns that title with a
\* null series and a null position.
C11_CleanTitleHasNoSeries ==
    (Len(returned) = 2 /\ Matching(call.title) # {}) =>
        returned[2] = [title |-> returned[1].title, series |-> None, position |-> None]

\* C12: no title is matched by more than one of the eight patterns.
C12_PatternsExclusive ==
    returned # <<>> => Cardinality(Matching(call.title)) <= 1

----------------------------------------------------------------------------
(* view_duplicates *)

DuplicatePct == 90

\* the tokens in the order of their text, the order ORDER BY title compares
\* by (no token is the beginning of another one)
TextOrder ==
    <<" ", "!", "#", "(", ")", ",", "-", ".", "1", "2.5", ":", "?", "BOOK",
      "Bar", "Book", "FOO", "Foo", "Saga", "The", "Vol", "bar", "book", "foo",
      "saga", "the", "vol">>
TextRank(t) == CHOOSE i \in DOMAIN TextOrder : TextOrder[i] = t

\* a < b, for strings
RECURSIVE TextLess(_, _)
TextLess(a, b) ==
    IF b = <<>> THEN FALSE
    ELSE IF a = <<>> THEN TRUE
    ELSE IF Head(a) = Head(b) THEN TextLess(Tail(a), Tail(b))
    ELSE TextRank(Head(a)) < TextRank(Head(b))

\* the rows of the author, marked deleted or not
LiveIds_AnyRow(db, author_id) == {id \in DOMAIN db : db[id].author_id = author_id}

\* line 1652: the rows of the author that are not marked deleted (the column
\* has DEFAULT 0 and is only ever set to 0 or 1, so it is never NULL)
LiveIds(db, author_id) ==
    {id \in DOMAIN db : db[id].author_id = author_id /\ db[id].deleted = 0}

\* ... ORDER BY title: the orders the query may return the rows in (rows
\* with one title come in any order)
OrderedByTitle(db, ids) ==
    {q \in [1..Cardinality(ids) -> ids] :
        /\ \A i, j \in DOMAIN q : i # j => q[i] # q[j]
        /\ \A i \in DOMAIN q : \A j \in DOMAIN q :
              i < j => ~TextLess(db[q[j]].title, db[q[i]].title)}

\* lines 1681-1682: for char in [':', ',', '-', '!', '?', '.']: replace(char, ' ')
RECURSIVE Unpunctuated(_)
Unpunctuated(s) ==
    IF s = <<>> THEN <<>>
    ELSE (IF Head(s) \in {":", ",", "-", "!", "?", "."} THEN <<" ">>
          ELSE IF Head(s) = "2.5" THEN <<"2", " ", "5">>
          ELSE <<Head(s)>>) \o Unpunctuated(Tail(s))

\* ' '.join(s.split())
RECURSIVE Squeezed(_)
Squeezed(s) ==
    IF s = <<>> THEN <<>>
    ELSE IF IsSpace(Head(s)) /\ (Len(s) = 1 \/ IsSpace(s[2])) THEN Squeezed(Tail(s))
    ELSE <<Head(s)>> \o Squeezed(Tail(s))
JoinSplit(s) == Squeezed(LStrip(s))

\* lines 1678-1686
NormalTitle(title) == JoinSplit(Unpunctuated(Strip(Lower(title))))

\* lines 1692-1699
SimilarWords(words1, words2, most) ==
    /\ Cardinality(words1) > 0
    /\ Cardinality(words2) > 0
    /\ 100 * Cardinality(words1 \cap words2) >= DuplicatePct * most
Max(a, b) == IF a >= b THEN a ELSE b

\* lines 1688-1699
SimilarTitles(title1, title2) ==
    \/ IsSubstr(title1, title2)
    \/ IsSubstr(title2, title1)
    \/ SimilarWords(Words(title1), Words(title2),
                    Max(Cardinality(Words(title1)), Cardinality(Words(title2))))

\* lines 1670-1699
IsDuplicate(book1, book2) ==
    \/ Truthy(book1.isbn13) /\ Truthy(book2.isbn13) /\ book1.isbn13 = book2.isbn13
    \/ Truthy(book1.isbn) /\ Truthy(book2.isbn) /\ book1.isbn = book2.isbn
    \/ Truthy(book1.asin) /\ Truthy(book2.asin) /\ book1.asin = book2.asin
    \/ SimilarTitles(NormalTitle(book1.title), NormalTitle(book2.title))

\* lines 1667-1703: the positions after i that join the group of all_books[i]
JoinGroup(all_books, i, processed) ==
    {j \in (i + 1)..Len(all_books) :
        /\ all_books[j].id \notin processed
        /\ IsDuplicate(all_books[i], all_books[j])}

\* the rows at the positions ps, in the order of all_books
RECURSIVE RowsAt(_, _)
RowsAt(all_books, ps) ==
    IF ps = {} THEN <<>>
    ELSE <<all_books[Min(ps)]>> \o RowsAt(all_books, ps \ {Min(ps)})

\* lines 1660-1707 from position i on
RECURSIVE GroupFrom(_, _, _, _)
GroupWith(all_books, i, processed, duplicate_groups, joined) ==
    GroupFrom(all_books, i + 1,
              processed \cup {all_books[p].id : p \in joined \cup {i}},
              IF joined # {}
              THEN Append(duplicate_groups, RowsAt(all_books, joined \cup {i}))
              ELSE duplicate_groups)
GroupFrom(all_books, i, processed, duplicate_groups) ==
    IF i > Len(all_books) THEN duplicate_groups
    ELSE IF all_books[i].id \in processed
    THEN GroupFrom(all_books, i + 1, processed, duplicate_groups)
    ELSE GroupWith(all_books, i, processed, duplicate_groups,
                   JoinGroup(all_books, i, processed))

\* dict(row) of the rows in the order q, the id included
RowDicts(db, q) ==
    [i \in DOMAIN q |-> [f \in DOMAIN db[q[i]] \cup {"id"} |->
                            IF f = "id" THEN q[i] ELSE db[q[i]][f]]]

duplicate_groups(all_books) == GroupFrom(all_books, 1, {}, <<>>)

\* lines 1651-1711: what the template is rendered with
Rendered(author_id, all_books) ==
    [author_id |-> author_id, all_books |-> all_books,
     duplicate_groups |-> duplicate_groups(all_books)]

view_duplicates(author_id) ==
    /\ returned = <<>>
    /\ \E q \in OrderedByTitle(books, LiveIds(books, author_id)) :
          returned' = <<Rendered(author_id, RowDicts(books, q))>>
    /\ call' = [fn |-> "view_duplicates"]
    /\ UNCHANGED <<mvars, dbvars, avars>>

MaxRows == 5

DupRow(author_id, title, isbn13, isbn, asin, deleted) ==
    [author_id |-> author_id, title |-> title, subtitle |-> None,
     isbn |-> isbn, isbn13 |-> isbn13, asin |-> asin, release_date |-> None,
     format |-> None, source |-> <<"OpenLibrary">>, cover_url |-> None,
     description |-> None, series |-> None, series_position |-> None,
     have_it |-> 0, deleted |-> deleted]

\* rows as scans, forms and delete_books leave them
DupPool ==
    { DupRow(1, <<"Foo">>, None, None, None, 0),
      DupRow(1, <<"Foo", " ", "Bar">>, X1, None, Empty, 0),
      DupRow(1, <<"Saga">>, X1, I1, None, 0),
      DupRow(1, <<"Saga", ":", " ", "Foo">>, X2, I1, None, 1),
      DupRow(1, <<"The", " ", "Bar">>, None, None, A1, 0),
      DupRow(1, <<"Bar", ",", " ", "The">>, Empty, None, Empty, 0),
      DupRow(2, <<"Foo">>, X1, None, None, 0) }

DupTables == SeqsUpTo(DupPool, MaxRows)

InitDuplicates ==
    /\ books \in DupTables
    /\ next_id = Len(books) + 1
    /\ scan_history = <<>>
    /\ last_request = [op |-> "none"]
    /\ requests = 0
    /\ authors = WatchedAuthors
    /\ scans = <<>>
    /\ call = [fn |-> "none"]
    /\ returned = <<>>
    /\ books_lists = <<>>
    /\ merged = <<>>
    /\ remerged = <<>>
    /\ mphase = "off"

NextDuplicates == \E a \in Authors : view_duplicates(a)

SpecDuplicates == InitDuplicates /\ [][NextDuplicates]_vars

\* the ids of the rows of a group
GroupIds(group) == {group[i].id : i \in DOMAIN group}

\* C13: every group returned by view_duplicates has at least two works, no
\* work is in two groups (or twice in one), and every work of a group is a
\* row of the requested author that is not marked deleted.
C13_GroupsDisjointLivePairs ==
    returned # <<>> =>
        LET groups == returned[1].duplicate_groups
        IN  /\ \A g \in DOMAIN groups :
                  /\ Len(groups[g]) >= 2
                  /\ Cardinality(GroupIds(groups[g])) = Len(groups[g])
                  /\ \A i \in DOMAIN groups[g] :
                        /\ groups[g][i].id \in DOMAIN books
                        /\ books[groups[g][i].id].author_id = returned[1].author_id
                        /\ books[groups[g][i].id].deleted = 0
            /\ \A g, h \in DOMAIN groups :
                  g # h => GroupIds(groups[g]) \cap GroupIds(groups[h]) = {}

\* two groups came back while the author has a row marked deleted with an
\* identifier of a row of the first group
C13_Witness ==
    /\ returned # <<>>
    /\ Len(returned[1].duplicate_groups) >= 2
    /\ \E id \in DOMAIN books :
          /\ books[id].author_id = returned[1].author_id
          /\ books[id].deleted = 1
          /\ \E i \in DOMAIN returned[1].duplicate_groups[1] :
                IsDuplicate(books[id], returned[1].duplicate_groups[1][i])

\* C14: any two works of the author that are not marked deleted and share a
\* non-null isbn13 are in one group, whatever their titles and the other
\* works of the author.
C14_SameIsbn13SameGroup ==
    returned # <<>> =>
        \A x, y \in LiveIds(books, returned[1].author_id) :
            (x # y /\ books[x].isbn13 # None /\ books[x].isbn13 = books[y].isbn13) =>
                \E g \in DOMAIN returned[1].duplicate_groups :
                    {x, y} \subseteq GroupIds(returned[1].duplicate_groups[g])

----------------------------------------------------------------------------
(* merge_duplicate_books on tables of up to MaxFold rows *)

MaxFold == 3
FoldIds == 1..MaxFold

\* rows as scans and forms leave them: fill fields empty, null or set
FoldPool ==
    { DupRow(1, <<"Foo">>, None, None, None, 0),
      [DupRow(1, <<"Foo">>, X1, None, Empty, 0) EXCEPT
          !.subtitle = <<"Sub">>, !.have_it = 1],
      [DupRow(1, <<"foo", " ">>, X2, I1, A1, 0) EXCEPT
          !.subtitle = <<"Sub2">>, !.series = <<"Saga">>],
      [DupRow(1, <<"Foo", " ", "Bar">>, None, I1, None, 1) EXCEPT
          !.subtitle = Empty, !.series_position = <<"1">>],
      [DupRow(2, <<"Foo">>, X1, None, None, 0) EXCEPT
          !.cover_url = <<"c1">>, !.have_it = 1] }

InitFold ==
    /\ books \in SeqsUpTo(FoldPool, MaxFold)
    /\ next_id = Len(books) + 1
    /\ scan_history = <<>>
    /\ last_request = [op |-> "none"]
    /\ requests = 0
    /\ authors = WatchedAuthors
    /\ scans = <<>>
    /\ call = [fn |-> "none"]
    /\ returned = <<>>
    /\ books_lists = <<>>
    /\ merged = <<>>
    /\ remerged = <<>>
    /\ mphase = "off"

NextFold ==
    \E p \in FoldIds, d \in SeqsUpTo(FoldIds, MaxFold) : merge_duplicate_books(p, d)

SpecFold == InitFold /\ [][NextFold]_vars

\* a step of merge_duplicate_books
FoldStep == requests' = requests + 1 /\ last_request'.op = "merge_duplicate_books"

\* the listed ids, in the order given, whose row the loop folds into the
\* primary: not the primary itself, stored, and not met earlier in the list
Folded(db, primary_id, duplicate_ids) ==
    SelectSeq([i \in DOMAIN duplicate_ids |->
                  IF /\ duplicate_ids[i] # primary_id
                     /\ duplicate_ids[i] \in DOMAIN db
                     /\ \A j \in 1..(i - 1) : duplicate_ids[j] # duplicate_ids[i]
                  THEN duplicate_ids[i] ELSE 0],
              LAMBDA id : id # 0)

\* the first non-empty value of field f among the rows ids of db, else v
RECURSIVE FirstNonEmpty(_, _, _, _)
FirstNonEmpty(db, ids, f, v) ==
    IF ids = <<>> THEN v
    ELSE IF Truthy(db[Head(ids)][f]) THEN db[Head(ids)][f]
    ELSE FirstNonEmpty(db, Tail(ids), f, v)

\* C15: after merge_duplicate_books, each fill field of the primary has the
\* value it had if that was non-empty, and otherwise the first non-empty
\* value among the duplicates in the order given: a value filled from an
\* earlier duplicate is not overwritten by a later one.
C15_FirstDuplicateFills ==
    [][FoldStep =>
        \A f \in MergeFields :
            books'[last_request'.primary_id][f] =
                IF Truthy(books[last_request'.primary_id][f])
                THEN books[last_request'.primary_id][f]
                ELSE FirstNonEmpty(books,
                                   Folded(books, last_request'.primary_id,
                                          last_request'.duplicate_ids),
                                   f, books[last_request'.primary_id][f])]_vars

\* C16: after merge_duplicate_books the primary is still stored, also when
\* its id is among the duplicates; every other listed id is not stored any
\* more; and the primary has have_it set exactly when it or a folded
\* duplicate had.
C16_PrimaryKeptDuplicatesGone ==
    [][FoldStep =>
        LET p == last_request'.primary_id
            d == last_request'.duplicate_ids
        IN  /\ p \in DOMAIN books'
            /\ \A i \in DOMAIN d : d[i] # p => d[i] \notin DOMAIN books'
            /\ books'[p].have_it = 1 <=>
                  \/ books[p].have_it = 1
                  \/ \E i \in DOMAIN d :
                        d[i] # p /\ d[i] \in DOMAIN books /\ books[d[i]].have_it = 1]_vars

\* a merge that listed the primary itself, an id that was not stored and a
\* row that was, folded that row and took its have_it
C16_Witness ==
    /\ last_request.op = "merge_duplicate_books"
    /\ \E i \in DOMAIN last_request.duplicate_ids :
          last_request.duplicate_ids[i] = last_request.primary_id
    /\ Len(last_request.duplicate_ids) = 3
    /\ Cardinality(DOMAIN books) = 1
    /\ requests = 1
    /\ last_request.primary.have_it = 0
    /\ books[last_request.primary_id].have_it = 1

----------------------------------------------------------------------------
(* check_audiobookshelf called on its own *)

MaxResults == 2

\* titles scan_author asks the catalog about
QueriedTitles ==
    { <<"The", " ", "Foo", " ", "Bar", " ", "Saga">>,
      <<"The", " ", "Foo", " ", "Bar">>,
      <<"Foo", ":", " ", "Bar">>,
      <<"Foo", "-", "Bar">>,
      <<"FOO">>,
      <<"Bar", " ">>,
      <<":">>,
      Empty }

\* search results: metadata.title ('' when the result has none) and
\* metadata.series
AbsResults ==
    { [title |-> <<"Saga", " ", "Bar", " ", "Foo">>, series |-> <<>>],
      [title |-> <<"Bar", " ", "Foo">>,
       series |-> <<[name |-> <<"Shelf", " ", "Saga">>, sequence |-> <<"2.5">>]>>],
      [title |-> <<"Foo", " ", "Bar", ",", " ", "The">>, series |-> <<>>],
      [title |-> <<"foo", " ">>, series |-> <<>>],
      [title |-> <<"Book", " ", "Bar", " ", "Saga", " ", "Vol">>, series |-> <<>>],
      [title |-> <<"Vol">>, series |-> <<>>],
      [title |-> Empty, series |-> <<>>] }

AbsAnswers ==
    {[up |-> u, results |-> r] :
        u \in BOOLEAN, r \in SeqsUpTo(AbsResults, MaxResults)}

InitOwned ==
    /\ call \in {[fn |-> "check_audiobookshelf", book_title |-> t, abs |-> a] :
                    t \in QueriedTitles, a \in AbsAnswers}
    /\ returned = <<>>
    /\ books_lists = <<>>
    /\ merged = <<>>
    /\ remerged = <<>>
    /\ mphase = "off"
    /\ books = <<>>
    /\ next_id = 1
    /\ scan_history = <<>>
    /\ last_request = [op |-> "none"]
    /\ requests = 0
    /\ authors = WatchedAuthors
    /\ scans = <<>>

\* has_book, series_name, series_position = check_audiobookshelf(title, name)
CheckOwned ==
    /\ returned = <<>>
    /\ returned' = <<check_audiobookshelf(call.book_title, call.abs)>>
    /\ UNCHANGED <<call, mvars, dbvars, avars>>

NextOwned == CheckOwned

SpecOwned == InitOwned /\ [][NextOwned]_vars

\* the words of a title, case and ':' ',' '-' aside
TitleWords(title) == Words(Normalized(Lower(title)))

\* the claimed rule for one catalog title (surrounding blanks of the catalog
\* title aside): containment either way, or at least 0.75 of the queried
\* title's words among the candidate's
ClaimedMatch(book_title, abs_title) ==
    \/ IsSubstr(Lower(book_title), Strip(Lower(abs_title)))
    \/ IsSubstr(Strip(Lower(abs_title)), Lower(book_title))
    \/ /\ TitleWords(book_title) # {}
       /\ 4 * Cardinality(TitleWords(book_title) \cap TitleWords(abs_title))
             >= 3 * Cardinality(TitleWords(book_title))

----------------------------------------------------------------------------
(* Properties of scan_author's ownership step, under Spec *)

\* the series the catalog of AbsCatalogs answers with: no title and no
\* Audible answer gives it, so a record carries it exactly when the
\* ownership match returned it
CatalogSeries == <<"Shelf", " ", "Saga">>
CatalogPosition == <<"2.5">>

\* the id of the row the i-th record of a scan was stored in: the row it
\* matched, or the row inserted for it (next is the id the first insert gets)
StoredAs(req, next, i) ==
    IF req.did[i] = "update" THEN req.existing[i]
    ELSE next + Cardinality({j \in 1..(i - 1) : req.did[j] = "insert"})

\* C18: when the ownership match of a scan returned catalog series metadata
\* for a work, the work's series and series_position after the scan are the
\* catalog's, for a work the scan inserted and for a work that was stored
\* before.
C18_CatalogSeriesWins ==
    [][ScanStep =>
          \A i \in DOMAIN last_request'.all_books :
              (/\ last_request'.all_books[i].series = CatalogSeries
               /\ last_request'.did[i] # "skip") =>
                  LET row == books'[StoredAs(last_request', next_id, i)]
                  IN  /\ row.series = CatalogSeries
                      /\ row.series_position = CatalogPosition]_vars

----------------------------------------------------------------------------
(* unified_search *)

\* item.get(key, default)
Get(item, key, default) == IF key \in DOMAIN item THEN item[key] ELSE default

\* lines 705-716: one parsed result of search_prowlarr_api
ProwlarrResult(item) ==
    [title |-> Get(item, "title", Empty), source |-> "Prowlarr", type |-> "Usenet",
     size |-> Get(item, "size", 0), indexer |-> Get(item, "indexer", Empty),
     download_url |-> Get(item, "downloadUrl", Empty),
     guid |-> Get(item, "guid", Empty), seeders |-> 0,
     publish_date |-> Get(item, "publishDate", Empty)]

\* lines 764-777: one parsed result of search_jackett_api
JackettResult(item) ==
    [title |-> Get(item, "Title", Empty), source |-> "Jackett", type |-> "Torrent",
     size |-> Get(item, "Size", 0), indexer |-> Get(item, "Tracker", Empty),
     download_url |-> Get(item, "Link", Empty),
     magnet_url |-> Get(item, "MagnetUri", Empty),
     guid |-> Get(item, "Guid", Empty), seeders |-> Get(item, "Seeders", 0),
     leechers |-> Get(item, "Peers", 0),
     publish_date |-> Get(item, "PublishDate", Empty)]

\* lines 679-725 and 728-786: `answer` is what the indexer answers: up
\* (configured, reachable, status 200) and the items of its response
search_prowlarr_api(answer) ==
    IF ~answer.up THEN <<>>
    ELSE [i \in DOMAIN answer.items |-> ProwlarrResult(answer.items[i])]
search_jackett_api(answer) ==
    IF ~answer.up THEN <<>>
    ELSE [i \in DOMAIN answer.items |-> JackettResult(answer.items[i])]

\* a key that looks at the size only
sort_key_SizeOnly(item) == <<0, item.size>>

\* lines 800-802
sort_key(item) == <<item.seeders, item.size>>

\* a < b, for the tuples sort_key returns
KeyLess(a, b) == a[1] < b[1] \/ (a[1] = b[1] /\ a[2] < b[2])

\* list.sort(key=sort_key, reverse=True): descending, and results with equal
\* keys stay in the order they had
RECURSIVE InsertDescending(_, _)
InsertDescending(sorted, item) ==
    IF sorted = <<>> THEN <<item>>
    ELSE IF KeyLess(sort_key(Head(sorted)), sort_key(item)) THEN <<item>> \o sorted
    ELSE <<Head(sorted)>> \o InsertDescending(Tail(sorted), item)
RECURSIVE SortDescending(_, _)
SortDescending(sorted, items) ==
    IF items = <<>> THEN sorted
    ELSE SortDescending(InsertDescending(sorted, Head(items)), Tail(items))

\* lines 789-808
unified_search(prowlarr, jackett) ==
    SortDescending(<<>>, search_prowlarr_api(prowlarr) \o search_jackett_api(jackett))

MaxHits == 2

\* items of the indexers' responses
ProwlarrItems ==
    { [title |-> tFoo, size |-> 100, guid |-> <<"g1">>],
      [title |-> tFoo, size |-> 300, guid |-> <<"g2">>],
      [title |-> tBar, guid |-> <<"g3">>] }
JackettItems ==
    { [Title |-> tFoo, Size |-> 100, Seeders |-> 5, Guid |-> <<"g4">>],
      [Title |-> tFoo, Size |-> 200, Seeders |-> 5, Guid |-> <<"g5">>],
      [Title |-> tBar, Size |-> 50, Seeders |-> 2, Guid |-> <<"g6">>],
      [Title |-> tBar, Size |-> 200, Seeders |-> 0, Guid |-> <<"g7">>],
      [Title |-> tFoo, Guid |-> <<"g8">>] }
IndexerAnswers(items) ==
    {[up |-> u, items |-> s] : u \in BOOLEAN, s \in SeqsUpTo(items, MaxHits)}

InitSearch ==
    /\ call \in {[fn |-> "unified_search", prowlarr |-> p, jackett |-> j] :
                    p \in IndexerAnswers(ProwlarrItems), j \in IndexerAnswers(JackettItems)}
    /\ returned = <<>>
    /\ books_lists = <<>>
    /\ merged = <<>>
    /\ remerged = <<>>
    /\ mphase = "off"
    /\ books = <<>>
    /\ next_id = 1
    /\ scan_history = <<>>
    /\ last_request = [op |-> "none"]
    /\ requests = 0
    /\ authors = WatchedAuthors
    /\ scans = <<>>

\* results = unified_search(query)
UnifiedSearch ==
    /\ returned = <<>>
    /\ returned' = <<unified_search(call.prowlarr, call.jackett)>>
    /\ UNCHANGED <<call, mvars, dbvars, avars>>

NextSearch == UnifiedSearch

SpecSearch == InitSearch /\ [][NextSearch]_vars

\* how often x is in the sequence s
Count(s, x) == Cardinality({i \in DOMAIN s : s[i] = x})

\* what the two indexers found, as parsed
Found == search_prowlarr_api(call.prowlarr) \o search_jackett_api(call.jackett)

----------------------------------------------------------------------------
(* send_to_download_client *)

TorrentClients == {"qbittorrent", "transmission", "deluge", "rtorrent"}
Backends == TorrentClients \cup {"sabnzbd"}

\* an unknown client type handed to the default client
TorrentBackend_Fallback(client_type) ==
    IF client_type \in TorrentClients THEN client_type ELSE "qbittorrent"

\* lines 1090-1100: the client the if/elif chain picks, "none" in the else
TorrentBackend(client_type) ==
    IF client_type \in TorrentClients THEN client_type ELSE "none"

\* the call of send_to_<backend>(download_url, title): `answers` is what each
\* backend's function would return
SendTo(backend, answers) ==
    IF backend = "none" THEN [sent_to |-> <<>>, ok |-> FALSE]
    ELSE [sent_to |-> <<backend>>, ok |-> answers[backend]]

\* lines 1079-1100
send_to_download_client(result_type, settings, answers) ==
    IF result_type = "Usenet" THEN SendTo("sabnzbd", answers)
    ELSE SendTo(TorrentBackend(Get(settings, "torrent_client_type", "qbittorrent")),
                answers)

\* the settings table: no torrent_client_type yet, or what the settings form
\* saved
SettingsTables ==
    {<<>>} \cup {[torrent_client_type |-> v] :
                    v \in TorrentClients \cup {"", "utorrent", "Deluge"}}

ResultTypes == {"Usenet", "Torrent", "usenet", ""}

InitSend ==
    /\ call \in {[fn |-> "send_to_download_client", result_type |-> t,
                  settings |-> s, answers |-> a] :
                    t \in ResultTypes, s \in SettingsTables, a \in [Backends -> BOOLEAN]}
    /\ returned = <<>>
    /\ books_lists = <<>>
    /\ merged = <<>>
    /\ remerged = <<>>
    /\ mphase = "off"
    /\ books = <<>>
    /\ next_id = 1
    /\ scan_history = <<>>
    /\ last_request = [op |-> "none"]
    /\ requests = 0
    /\ authors = WatchedAuthors
    /\ scans = <<>>

\* success = send_to_download_client(download_url, title, result_type)
SendToDownloadClient ==
    /\ returned = <<>>
    /\ returned' = <<send_to_download_client(call.result_type, call.settings,
                                             call.answers)>>
    /\ UNCHANGED <<call, mvars, dbvars, avars>>

NextSend == SendToDownloadClient

SpecSend == InitSend /\ [][NextSend]_vars

\* the client type the settings name (qbittorrent when none is stored)
NamedClient == Get(call.settings, "torrent_client_type", "qbittorrent")

\* C20: send_to_download_client hands the download to at most one backend:
\* to the NZB backend exactly when the result type is Usenet, otherwise to
\* the torrent backend that torrent_client_type names, and to none, with the
\* result false, when that names no known client.
C20_OneBackendByType ==
    returned # <<>> =>
        LET sent_to == returned[1].sent_to
        IN  /\ Len(sent_to) <= 1
            /\ (sent_to = <<"sabnzbd">>) <=> (call.result_type = "Usenet")
            /\ (call.result_type # "Usenet" /\ NamedClient \in TorrentClients) =>
                  sent_to = <<NamedClient>>
            /\ (call.result_type # "Usenet" /\ NamedClient \notin TorrentClients) =>
                  sent_to = <<>> /\ ~returned[1].ok

\* a torrent result while the settings name a client the code does not know
\* and every backend would take the download: nothing sent, false returned
C20_Witness ==
    /\ returned # <<>>
    /\ call.result_type = "Torrent"
    /\ call.settings # <<>>
    /\ NamedClient = "utorrent"
    /\ \A b \in Backends : call.answers[b]
    /\ returned[1] = [sent_to |-> <<>>, ok |-> FALSE]

----------------------------------------------------------------------------
(* send_to_sabnzbd, send_to_qbittorrent, send_to_transmission,             *)
(* send_to_deluge, send_to_rtorrent                                         *)

\* what a server does with one request: the request raises (no connection,
\* timeout), the status is not 200, the body cannot be interpreted, the body
\* is well formed and says no, or it carries the success signal
Answers == {"raise", "status", "malformed", "no", "yes"}

\* the outcome of a function body: `stages` are the requests made, in
\* order, with the answer each got
Outcome(ok, raised, stages) == [ok |-> ok, raised |-> raised, stages |-> stages]
Stage(name, answer) == [stage |-> name, answer |-> answer]

\* lines 847-852 and 866-877: the answer of SABnzbd to addurl or addfile
SabnzbdSubmit(fetched, answer) ==
    Outcome(answer = "yes", answer \in {"raise", "malformed"},
            <<fetched, Stage("submit", answer)>>)

\* lines 821-879: the body of the try of send_to_sabnzbd; `fetch` answers
\* the GET of the NZB ("yes": content that starts with <?xml)
SabnzbdBody(fetch, submit) ==
    IF fetch = "raise" THEN Outcome(FALSE, TRUE, <<Stage("fetch", fetch)>>)
    ELSE IF fetch = "status" THEN Outcome(FALSE, FALSE, <<Stage("fetch", fetch)>>)
    ELSE SabnzbdSubmit(Stage("fetch", fetch), submit)

\* lines 901-924: login must answer 200 'Ok.', then add must
QbittorrentBody(login, add) ==
    IF login = "raise" THEN Outcome(FALSE, TRUE, <<Stage("auth", login)>>)
    ELSE IF login # "yes" THEN Outcome(FALSE, FALSE, <<Stage("auth", login)>>)
    ELSE Outcome(add = "yes", add = "raise",
                 <<Stage("auth", login), Stage("submit", add)>>)

\* lines 943-975: the first POST must bring the session id header (a
\* request with wrong credentials is answered without it), then torrent-add
\* must answer 200 with result 'success'
TransmissionBody(session, add) ==
    IF session = "raise" THEN Outcome(FALSE, TRUE, <<Stage("auth", session)>>)
    ELSE IF session # "yes" THEN Outcome(FALSE, FALSE, <<Stage("auth", session)>>)
    ELSE Outcome(add = "yes", add \in {"raise", "malformed"},
                 <<Stage("auth", session), Stage("submit", add)>>)

\* lines 994-1036
DelugeBody(login, add) ==
    IF login \in {"raise", "malformed"}
    THEN Outcome(FALSE, TRUE, <<Stage("auth", login)>>)
    ELSE IF login # "yes" THEN Outcome(FALSE, FALSE, <<Stage("auth", login)>>)
    ELSE Outcome(add = "yes", add \in {"raise", "malformed"},
                 <<Stage("auth", login), Stage("submit", add)>>)

\* lines 1057-1072: server.load.start raises on a fault, a bad status or an
\* unreadable answer, and returns otherwise
RtorrentBody(load) ==
    Outcome(load = "yes", load # "yes", <<Stage("submit", load)>>)

\* an exception that leaves the function
Caught_Reraised(body) == body

\* except Exception as e: ... return False
Caught(body) == IF body.raised THEN Outcome(FALSE, FALSE, body.stages) ELSE body

BackendBody(backend, first, second) ==
    CASE backend = "sabnzbd" -> SabnzbdBody(first, second)
      [] backend = "qbittorrent" -> QbittorrentBody(first, second)
      [] backend = "transmission" -> TransmissionBody(first, second)
      [] backend = "deluge" -> DelugeBody(first, second)
      [] backend = "rtorrent" -> RtorrentBody(first)

\* send_to_<backend>(download_url, title): not configured (no url, for
\* SABnzbd no url or no key) returns False before the try
send_to_backend(backend, configured, first, second) ==
    IF ~configured THEN Outcome(FALSE, FALSE, <<>>)
    ELSE Caught(BackendBody(backend, first, second))

InitBackend ==
    /\ call \in {[fn |-> "send_to_backend", backend |-> b, configured |-> c,
                  first |-> a1, second |-> a2] :
                    b \in Backends, c \in BOOLEAN, a1 \in Answers, a2 \in Answers}
    /\ returned = <<>>
    /\ books_lists = <<>>
    /\ merged = <<>>
    /\ remerged = <<>>
    /\ mphase = "off"
    /\ books = <<>>
    /\ next_id = 1
    /\ scan_history = <<>>
    /\ last_request = [op |-> "none"]
    /\ requests = 0
    /\ authors = WatchedAuthors
    /\ scans = <<>>

SendToBackend ==
    /\ returned = <<>>
    /\ returned' = <<send_to_backend(call.backend, call.configured, call.first,
                                     call.second)>>
    /\ UNCHANGED <<call, mvars, dbvars, avars>>

NextBackend == SendToBackend

SpecBackend == InitBackend /\ [][NextBackend]_vars

\* C21: for every backend, a failure at authentication, at submission or in
\* interpreting the answer makes the function return false without raising;
\* no stage is attempted twice, submission is not attempted after a failed
\* authentication, and true is returned only when the submission was
\* answered with the backend's success signal.
C21_FailureIsFalse ==
    returned # <<>> =>
        LET r == returned[1]
        IN  /\ ~r.raised
            /\ \A i \in DOMAIN r.stages :
                  (r.stages[i].stage \in {"auth", "submit"} /\ r.stages[i].answer # "yes")
                      => ~r.ok
            /\ \A i, j \in DOMAIN r.stages :
                  i # j => r.stages[i].stage # r.stages[j].stage
            /\ \A i, j \in DOMAIN r.stages :
                  (r.stages[i].stage = "auth" /\ r.stages[i].answer # "yes")
                      => r.stages[j].stage # "submit"
            /\ r.ok => \E i \in DOMAIN r.stages :
                          r.stages[i] = Stage("submit", "yes")

\* a backend that authenticated and whose answer to the submission could
\* not be interpreted: false came back
C21_Witness ==
    /\ returned # <<>>
    /\ returned[1] = Outcome(FALSE, FALSE,
                             <<Stage("auth", "yes"), Stage("submit", "malformed")>>)
    /\ call.backend = "deluge"

----------------------------------------------------------------------------
(* scan_author (the three providers and merge_books) and unified_search    *)
(* on payloads that are not what the adapters expect                        *)

MaxDocs == 2

\* a JSON number where a text is expected
JsonNumber == <<"<int>">>

\* isinstance(v, str)
IsText(v) == v # None /\ v # JsonNumber

\* what a provider answers: the request raises, raise_for_status() raises
\* (Audnexus: status_code != 200), the body is not the expected JSON, or it
\* carries documents, written here by their titles
ProviderAnswers ==
    {[kind |-> k, titles |-> <<>>] : k \in {"raise", "status", "malformed"}}
    \cup {[kind |-> "docs", titles |-> t] :
            t \in SeqsUpTo({tFoo, tBar, None, JsonNumber}, MaxDocs)}

\* if book['title']: books.append(book)
Kept(answer) ==
    IF answer.kind # "docs" THEN <<>> ELSE SelectSeq(answer.titles, Truthy)

\* lines 154-191, 194-241, 244-281: every exception gives []
query_openlibrary(answer) ==
    [i \in DOMAIN Kept(answer) |->
        OpenLibraryBook(Kept(answer)[i], Empty, None, None, Empty, None)]
query_google_books(answer) ==
    [i \in DOMAIN Kept(answer) |->
        GoogleBook(Kept(answer)[i], Empty, None, None, Empty, None, Empty)]
query_audnexus(answer) ==
    [i \in DOMAIN Kept(answer) |->
        AudnexusBook(Kept(answer)[i], Empty, Empty, Empty, None)]

\* line 303: re.search(pattern, title, re.IGNORECASE) raises TypeError for
\* a title that is not a string; nothing in merge_books or scan_author
\* catches it
MergeOutcome(lists) ==
    IF \E i \in DOMAIN Flatten(lists) : ~IsText(Flatten(lists)[i].title)
    THEN [raised |-> TRUE, results |-> <<>>]
    ELSE [raised |-> FALSE, results |-> merge_books(lists)]

\* lines 1482-1487 of scan_author
query_all_sources(ol, gb, an) ==
    MergeOutcome(<<query_openlibrary(ol), query_google_books(gb), query_audnexus(an)>>)

\* item.get('Seeders', 0) is None: the key is there with a JSON null. Such
\* an item is written with the key in its field `null`
NoneSeeders(item) == "Seeders" \in Get(item, "null", {})

\* items of Jackett's response, some with "Seeders": null
JackettPayloadItems ==
    JackettItems
    \cup { [Title |-> tBar, Size |-> 50, null |-> {"Seeders"}, Guid |-> <<"g9">>],
           [Title |-> tFoo, Size |-> 70, null |-> {"Seeders"}, Guid |-> <<"g10">>] }

\* line 804: the sort compares the keys (None, size) and (n, size) of two
\* results, which raises TypeError; with every seeders None it orders by size
SortRaises(prowlarr, jackett) ==
    /\ jackett.up
    /\ \E i \in DOMAIN jackett.items : NoneSeeders(jackett.items[i])
    /\ \/ \E i \in DOMAIN jackett.items : ~NoneSeeders(jackett.items[i])
       \/ prowlarr.up /\ prowlarr.items # <<>>

\* lines 789-808, with the exception the sort can raise (in `results` a
\* seeders of None is written 0)
SearchOutcome(prowlarr, jackett) ==
    IF SortRaises(prowlarr, jackett)
    THEN [raised |-> TRUE, results |-> <<>>]
    ELSE [raised |-> FALSE, results |-> unified_search(prowlarr, jackett)]

InitSources ==
    /\ call \in {[fn |-> "scan_author", ol |-> a, gb |-> b, an |-> c] :
                    a \in ProviderAnswers, b \in ProviderAnswers, c \in ProviderAnswers}
               \cup {[fn |-> "unified_search", prowlarr |-> p, jackett |-> j] :
                        p \in IndexerAnswers(ProwlarrItems),
                        j \in IndexerAnswers(JackettPayloadItems)}
    /\ returned = <<>>
    /\ books_lists = <<>>
    /\ merged = <<>>
    /\ remerged = <<>>
    /\ mphase = "off"
    /\ books = <<>>
    /\ next_id = 1
    /\ scan_history = <<>>
    /\ last_request = [op |-> "none"]
    /\ requests = 0
    /\ authors = WatchedAuthors
    /\ scans = <<>>

QueryAllSources ==
    /\ returned = <<>>
    /\ call.fn = "scan_author"
    /\ returned' = <<query_all_sources(call.ol, call.gb, call.an)>>
    /\ UNCHANGED <<call, mvars, dbvars, avars>>

SearchIndexers ==
    /\ returned = <<>>
    /\ call.fn = "unified_search"
    /\ returned' = <<SearchOutcome(call.prowlarr, call.jackett)>>
    /\ UNCHANGED <<call, mvars, dbvars, avars>>

NextSources == QueryAllSources \/ SearchIndexers

SpecSources == InitSources /\ [][NextSources]_vars

\* C22: in scan_author and in unified_search, a network failure, a non-2xx
\* answer or a malformed payload (a null or non-text title, a null seeders
\* value) of one source makes that source contribute nothing, and the
\* operation completes without an exception.
C22_SourceFailureContained ==
    returned # <<>> => ~returned[1].raised

----------------------------------------------------------------------------
(* scan_history *)

----------------------------------------------------------------------------
(* index, add_author, bulk_import_authors, delete_author, edit_author      *)

MaxAuthorRequests == 4
MaxImport == 2

\* names as typed into the form or as the ownership catalog lists them
AuthorNames == {<<"Foo">>, <<"Foo", " ">>, <<"foo">>, <<"Bar">>, <<" ">>}

AuthorIds == 1..MaxAuthorRequests

\* the ids of the rows with this name (name is UNIQUE, compared byte by byte)
NamedIds(table, name) == {id \in DOMAIN table : table[id].name = name}

\* INSERT INTO authors (name) VALUES (?): active DEFAULT 1
NewAuthor(name) == [name |-> name, active |-> 1]

\* an insert without the UNIQUE constraint
InsertAuthor_Duplicate(table, name) == Append(table, NewAuthor(name))

\* an insert that brings an author of that name back
InsertAuthor_Reactivates(table, name) ==
    IF NamedIds(table, name) = {} THEN Append(table, NewAuthor(name))
    ELSE [id \in DOMAIN table |->
            IF table[id].name = name THEN [table[id] EXCEPT !.active = 1]
            ELSE table[id]]

\* the table after the INSERT; a name that is there raises IntegrityError and
\* leaves the table as it is
InsertAuthor(table, name) ==
    IF NamedIds(table, name) = {} THEN Append(table, NewAuthor(name)) ELSE table

\* the request changes nothing but table authors
AuthorRequest(op) ==
    /\ requests < MaxAuthorRequests
    /\ requests' = requests + 1
    /\ last_request' = op
    /\ UNCHANGED <<books, next_id, scan_history, scans, mvars>>

\* lines 1112-1132
add_author(raw) ==
    LET author_name == Strip(raw)
        flash == IF author_name = Empty THEN "danger"
                 ELSE IF NamedIds(authors, author_name) # {} THEN "warning"
                 ELSE "success"
    IN  /\ AuthorRequest([op |-> "add_author", name |-> author_name, flash |-> flash])
        /\ authors' = IF author_name = Empty THEN authors
                      ELSE InsertAuthor(authors, author_name)
        /\ UNCHANGED fvars

\* lines 1149-1160: the loop over authors_list
RECURSIVE ImportAll(_, _)
ImportAll(table, authors_list) ==
    IF authors_list = <<>> THEN table
    ELSE ImportAll(InsertAuthor(table, Head(authors_list)), Tail(authors_list))

\* lines 1135-1166
bulk_import_authors(authors_list) ==
    /\ AuthorRequest([op |-> "bulk_import_authors", names |-> authors_list,
                      flash |-> IF authors_list = <<>> THEN "danger" ELSE "success"])
    /\ authors' = ImportAll(authors, authors_list)
    /\ UNCHANGED fvars

\* lines 1169-1177
delete_author(author_id) ==
    /\ AuthorRequest([op |-> "delete_author", author_id |-> author_id,
                      flash |-> "success"])
    /\ authors' = [id \in DOMAIN authors |->
                      IF id = author_id THEN [authors[id] EXCEPT !.active = 0]
                      ELSE authors[id]]
    /\ UNCHANGED fvars

\* lines 1180-1199: the UPDATE raises IntegrityError when it would give the
\* row the name of another row
edit_author(author_id, raw) ==
    LET new_name == Strip(raw)
        taken == author_id \in DOMAIN authors
                 /\ NamedIds(authors, new_name) \ {author_id} # {}
        flash == IF new_name = Empty THEN "danger"
                 ELSE IF taken THEN "warning" ELSE "success"
    IN  /\ AuthorRequest([op |-> "edit_author", author_id |-> author_id,
                          name |-> new_name, flash |-> flash])
        /\ authors' = IF flash # "success" THEN authors
                      ELSE [id \in DOMAIN authors |->
                              IF id = author_id
                              THEN [authors[id] EXCEPT !.name = new_name]
                              ELSE authors[id]]
        /\ UNCHANGED fvars

\* SELECT * FROM authors WHERE active = 1 ORDER BY name
ActiveByName(table) ==
    LET ids == {id \in DOMAIN table : table[id].active = 1}
    IN  CHOOSE q \in [1..Cardinality(ids) -> ids] :
            \A i, j \in DOMAIN q : i < j => TextLess(table[q[i]].name, table[q[j]].name)

\* lines 1103-1109: the author list, as ids
index ==
    /\ AuthorRequest([op |-> "index"])
    /\ returned' = <<ActiveByName(authors)>>
    /\ UNCHANGED <<authors, call>>

InitAuthors ==
    /\ authors = <<>>
    /\ scans = <<>>
    /\ call = [fn |-> "none"]
    /\ returned = <<>>
    /\ books_lists = <<>>
    /\ merged = <<>>
    /\ remerged = <<>>
    /\ mphase = "off"
    /\ books = <<>>
    /\ next_id = 1
    /\ scan_history = <<>>
    /\ last_request = [op |-> "none"]
    /\ requests = 0

NextAuthors ==
    \/ \E raw \in AuthorNames : add_author(raw)
    \/ \E l \in SeqsUpTo(AuthorNames, MaxImport) : bulk_import_authors(l)
    \/ \E id \in AuthorIds : delete_author(id)
    \/ \E id \in AuthorIds, raw \in AuthorNames : edit_author(id, raw)
    \/ index

SpecAuthors == InitAuthors /\ [][NextAuthors]_vars

AuthorStep(op) == requests' = requests + 1 /\ last_request'.op = op

\* C26: no request removes a row of table authors (delete_author only sets
\* active to 0); the names of the rows, active or not, are pairwise
\* distinct; add_author with a name some row has, and edit_author with a
\* name another row has, leave the table as it is and report a warning.
C26_AuthorsKeptNamesDistinct ==
    [][/\ DOMAIN authors \subseteq DOMAIN authors'
       /\ \A i, j \in DOMAIN authors' : i # j => authors'[i].name # authors'[j].name
       /\ AuthorStep("delete_author") =>
            \A id \in DOMAIN authors :
                authors'[id] = IF id = last_request'.author_id
                               THEN [authors[id] EXCEPT !.active = 0]
                               ELSE authors[id]
       /\ (AuthorStep("add_author") /\ NamedIds(authors, last_request'.name) # {})
            => authors' = authors /\ last_request'.flash = "warning"
       /\ (/\ AuthorStep("edit_author")
           /\ last_request'.author_id \in DOMAIN authors
           /\ NamedIds(authors, last_request'.name) \ {last_request'.author_id} # {})
            => authors' = authors /\ last_request'.flash = "warning"]_vars

\* an author was removed from the watchlist, then an edit of another author
\* to the removed author's name was refused
C26_Witness ==
    /\ last_request.op = "edit_author"
    /\ last_request.flash = "warning"
    /\ Len(authors) = 2
    /\ authors[1].active = 0
    /\ last_request.author_id = 2
    /\ last_request.name = authors[1].name

\* C29: a row of table authors whose active is 0 stays at 0 whatever the
\* request; add_author with the name of such a row reports 'already in
\* watchlist' and changes nothing, bulk import with that name changes
\* nothing, and the author list shows the active rows only.
C29_InactiveStaysInactive ==
    [][/\ \A id \in DOMAIN authors : authors[id].active = 0 => authors'[id].active = 0
       /\ (\/ AuthorStep("add_author")
              /\ \E id \in NamedIds(authors, last_request'.name) : authors[id].active = 0
           \/ AuthorStep("bulk_import_authors")
              /\ \A i \in DOMAIN last_request'.names :
                    \E id \in NamedIds(authors, last_request'.names[i]) :
                        authors[id].active = 0)
            => authors' = authors
       /\ (AuthorStep("add_author")
           /\ \E id \in NamedIds(authors, last_request'.name) : authors[id].active = 0)
            => last_request'.flash = "warning"
       /\ AuthorStep("index") =>
            {returned'[1][i] : i \in DOMAIN returned'[1]}
                = {id \in DOMAIN authors : authors[id].active = 1}]_vars

\* the author list was shown without a removed author, and add_author with
\* the removed author's name was then refused
C29_Witness ==
    /\ last_request.op = "add_author"
    /\ last_request.flash = "warning"
    /\ Len(authors) = 1
    /\ authors[1].active = 0
    /\ returned = <<<<>>>>

----------------------------------------------------------------------------
(* have_it on a rescan *)

\* the records of the scan that updated row id, in the order of all_books
UpdatesOf(req, id) ==
    {i \in DOMAIN req.all_books : req.existing[i] = id /\ req.did[i] = "update"}

\* C25: a scan sets have_it of every stored row it updates (a row not
\* marked deleted that one of its records matches) to the ownership result
\* of that scan for the record, whatever was stored before (a value set by
\* toggle_book_owned included); when several records of one scan match the
\* row, the last one decides.
C25_RescanOverwritesHaveIt ==
    [][ScanStep =>
          \A id \in DOMAIN books :
              UpdatesOf(last_request', id) # {} =>
                  books'[id].have_it =
                      last_request'.all_books[
                          CHOOSE i \in UpdatesOf(last_request', id) :
                              \A j \in UpdatesOf(last_request', id) : j <= i].have_it]_vars

\* a scan stored a work, another request followed or preceded it, and a
\* rescan whose catalog check said not owned updated the work to not owned
C25_Witness ==
    /\ last_request.op = "scan_author"
    /\ Len(scan_history) = 2
    /\ scan_history[1].new_books = 1
    /\ scan_history[2].new_books = 0
    /\ last_request.did = <<"update">>
    /\ last_request.all_books[1].have_it = 0
    /\ books[last_request.existing[1]].have_it = 0
    /\ requests = 3

----------------------------------------------------------------------------
(* a rescan after merge_duplicate_books *)

MaxRescanBooks == 3

RescanIds == 1..MaxRescanBooks

\* an author is scanned again and again while the providers and the catalog
\* keep answering the same
InitRescan ==
    /\ call \in {[fn |-> "scan_author", author_id |-> a, all_books |-> ab] :
                    a \in Authors, ab \in ScanOutcomes}
    /\ returned = <<>>
    /\ books = <<>>
    /\ next_id = 1
    /\ scan_history = <<>>
    /\ last_request = [op |-> "none"]
    /\ requests = 0
    /\ authors = WatchedAuthors
    /\ scans = <<>>
    /\ books_lists = <<>>
    /\ merged = <<>>
    /\ remerged = <<>>
    /\ mphase = "off"

Rescan == ScanWithin(call.author_id, call.all_books, MaxRescanBooks)

MergeStored ==
    \E p \in RescanIds, d \in SeqsUpTo(RescanIds, 1) : merge_duplicate_books(p, d)

NextRescan == Rescan \/ MergeStored

SpecRescan == InitRescan /\ [][NextRescan]_vars

\* C27: a scan of the author that follows a merge_duplicate_books, with the
\* provider records of the scan that stored the works, inserts nothing: the
\* work the merge removed is not stored again.
C27_FoldedDuplicateStaysGone ==
    [][(/\ ScanStep
        /\ last_request.op = "merge_duplicate_books"
        /\ scan_history # <<>>)
          => \A i \in DOMAIN last_request'.did : last_request'.did[i] # "insert"]_vars

----------------------------------------------------------------------------
(* search results without a title *)

\* C30: check_audiobookshelf reports a book (one with a title) as owned only
\* when some search result with a non-empty title matches it; a result
\* whose title is empty or missing never counts as a match.
C30_OwnedByTitledResultOnly ==
    returned # <<>> =>
        ((returned[1].has_it /\ Strip(call.book_title) # Empty) =>
            \E i \in DOMAIN call.abs.results :
                /\ Strip(call.abs.results[i].title) # Empty
                /\ ItemMatches(call.book_title, call.abs.results[i]))

----------------------------------------------------------------------------
(* two scan_author requests at once: each has its own connection (get_db,  *)
(* lines 47-51). A SELECT outside a transaction reads what is committed;   *)
(* the first INSERT or UPDATE of a request opens its transaction and takes *)
(* the database's write lock, which it holds until db.commit() (line       *)
(* 1601), so what a request writes appears at once, at its commit, and no  *)
(* other request writes in between. A request that waits for the lock      *)
(* longer than sqlite3's timeout fails; the scans here do not.              *)

\* the works the providers return in the scans that run at once: each from
\* one provider, none in the catalog, no series from Audible
InterleavePool ==
    {ab \in ScanOutcomes :
        \A i \in DOMAIN ab : /\ ab[i].have_it = 0
                             /\ ~ab[i].source.isList
                             /\ ab[i].series \in {None, <<"Saga">>}}

\* row id marked deleted (delete_books)
Tombstone(db, ids) ==
    [id \in DOMAIN db |-> IF id \in ids THEN [db[id] EXCEPT !.deleted = 1] ELSE db[id]]

\* tables the scans start from: empty, or what an earlier scan of an author
\* stored, with rows marked deleted or not
InterleaveTables ==
    {<<>>} \cup
    {Tombstone(ScanResult(<<>>, 1, a, ab).db, ids) :
        a \in Authors, ab \in {x \in InterleavePool : Len(x) = 1}, ids \in SUBSET {1}}

ScanIds == {1, 2}

\* a request at the top of the loop of line 1508, before record i
Reading(author_id, all_books) ==
    [author_id |-> author_id, all_books |-> all_books, i |-> 1,
     phase |-> "reading", found |-> 0]

InitInterleave ==
    /\ books \in InterleaveTables
    /\ next_id = Len(books) + 1
    /\ scans \in {<<Reading(a1, ab1), Reading(a2, ab2)>> :
                    a1 \in Authors, a2 \in Authors,
                    ab1 \in InterleavePool, ab2 \in InterleavePool}
    /\ call = [fn |-> "scan_author", books |-> books]
    /\ returned = <<>>
    /\ scan_history = <<>>
    /\ last_request = [op |-> "none"]
    /\ requests = 0
    /\ authors = WatchedAuthors
    /\ books_lists = <<>>
    /\ merged = <<>>
    /\ remerged = <<>>
    /\ mphase = "off"

\* lines 1511-1543 for record i of request p, outside a transaction: the
\* four queries, and `continue` for a row marked deleted
Lookup(p) ==
    LET s == scans[p]
        existing == FindExisting(books, s.author_id, s.all_books[s.i])
    IN  /\ s.phase = "reading"
        /\ s.i <= Len(s.all_books)
        /\ scans' = [scans EXCEPT ![p] =
                        IF existing # 0 /\ books[existing].deleted = 1
                        THEN [s EXCEPT !.i = @ + 1]
                        ELSE [s EXCEPT !.phase = "found", !.found = existing]]
        /\ UNCHANGED <<dbvars, authors, mvars, fvars>>

\* lines 1545-1586 for the record whose row was looked up before the
\* transaction began: INSERT when no row was found, UPDATE of that row
\* otherwise
WriteFound(st, author_id, book, found) ==
    IF found = 0
    THEN [st EXCEPT !.db = [id \in DOMAIN st.db \cup {st.next} |->
                               IF id = st.next THEN InsertedRow(author_id, book)
                               ELSE st.db[id]],
                    !.next = @ + 1,
                    !.new_books = @ + 1]
    ELSE [st EXCEPT !.db[found] = UpdatedRow(@, book)]

\* the transaction of request s on the committed table: the write for
\* record i, then lines 1508-1587 for the records after it
Transaction(db, next, s) ==
    LET st == [db |-> db, next |-> next, new_books |-> 0,
               existing |-> <<>>, by |-> <<>>, did |-> <<>>]
    IN  IF s.phase = "reading" THEN st
        ELSE PersistAll(WriteFound(st, s.author_id, s.all_books[s.i], s.found),
                        s.author_id,
                        SubSeq(s.all_books, s.i + 1, Len(s.all_books)))

\* from the first write of request p to db.commit() (lines 1545-1601)
Commit(p) ==
    LET s == scans[p]
    IN  /\ \/ s.phase = "found"
           \/ s.phase = "reading" /\ s.i > Len(s.all_books)
        /\ \E r \in {Transaction(books, next_id, s)} :
            /\ books' = r.db
            /\ next_id' = r.next
            /\ scan_history' = Append(scan_history,
                                      [author_id |-> s.author_id,
                                       books_found |-> Len(s.all_books),
                                       new_books |-> r.new_books])
        /\ scans' = [scans EXCEPT ![p] = [s EXCEPT !.phase = "done"]]
        /\ last_request' = [op |-> "scan_author"]
        /\ requests' = requests + 1
        /\ UNCHANGED <<authors, mvars, fvars>>

NextInterleave == \E p \in ScanIds : Lookup(p) \/ Commit(p)

SpecInterleave == InitInterleave /\ [][NextInterleave]_vars

\* both requests have committed
BothDone == scans # <<>> /\ \A p \in ScanIds : scans[p].phase = "done"

\* the tables and the scan history after request p, then request q, each run
\* from start to end
OneAfterTheOther(p, q) ==
    LET first == ScanResult(call.books, Len(call.books) + 1, scans[p].author_id,
                            scans[p].all_books)
        second == ScanResult(first.db, first.next, scans[q].author_id,
                             scans[q].all_books)
    IN  [books |-> second.db,
         scan_history |->
            <<[author_id |-> scans[p].author_id,
               books_found |-> Len(scans[p].all_books), new_books |-> first.new_books],
              [author_id |-> scans[q].author_id,
               books_found |-> Len(scans[q].all_books), new_books |-> second.new_books]>>]

Serial == {OneAfterTheOther(1, 2), OneAfterTheOther(2, 1)}

\* the rows of the author, in id order
RECURSIVE RowsInOrder(_, _)
RowsInOrder(db, ids) ==
    IF ids = {} THEN <<>> ELSE <<db[Min(ids)]>> \o RowsInOrder(db, ids \ {Min(ids)})

\* the author's rows after a scan of the author on the author's rows alone
Alone(p) ==
    LET mine == RowsOf(call.books, scans[p].author_id)
        r == ScanResult([id \in mine |-> call.books[id]], Len(call.books) + 1,
                        scans[p].author_id, scans[p].all_books)
    IN  RowsInOrder(r.db, DOMAIN r.db)

\* C24: when scans of two different authors run at once, each stores for
\* its author what it would store if the other author had no rows at all
\* (rows marked deleted included), rows of no other author change, and
\* the table and the scan history end as after one of the two orders of
\* running the scans one after the other.
C24_AuthorsIsolated ==
    (BothDone /\ scans[1].author_id # scans[2].author_id) =>
        /\ \A p \in ScanIds :
              RowsInOrder(books, RowsOf(books, scans[p].author_id)) = Alone(p)
        /\ [books |-> books, scan_history |-> scan_history] \in Serial

\* author 2 has a row marked deleted; scans of both authors found the same
\* work, looked it up before either wrote, and author 1's was stored
C24_Witness ==
    /\ BothDone
    /\ scans[1].author_id = 1
    /\ scans[2].author_id = 2
    /\ scans[1].all_books = scans[2].all_books
    /\ Len(scans[1].all_books) = 1
    /\ Len(call.books) = 1
    /\ call.books[1].author_id = 2
    /\ call.books[1].deleted = 1
    /\ call.books[1].title = scans[1].all_books[1].title
    /\ Len(books) = 2
    /\ books[2].author_id = 1
    /\ scan_history[1].author_id = 2

\* C28: when two scans of one author run at once, the table and the scan
\* history end as after running them one after the other: a record both
\* find absent is stored once.
C28_SameAuthorSerial ==
    (BothDone /\ scans[1].author_id = scans[2].author_id) =>
        [books |-> books, scan_history |-> scan_history] \in Serial

====
